---- MODULE Spec2Model ----
(***************************************************************************)
(* Model of the Oura MCP server's analysis core (src/src/core/dashboards.ts) *)
(* JavaScript numbers are modelled as exact rationals; a correlation        *)
(* coefficient num / Math.sqrt(denX * denY) is kept exactly as a signed     *)
(* square root of a rational.  Calendar days "YYYY-MM-DD" are <<y, m, d>>.  *)
(***************************************************************************)
EXTENDS Integers, Sequences, FiniteSets, TLC

VARIABLES
    args,     \* arguments of the function under analysis
    ret,      \* its return value, [fn |-> "none"] before the call
    input,    \* the argument record of buildDashboards
    result,   \* the DashboardsResult, [fn |-> "none"] before the call
    GRANULARITY_NOTES,   \* the module-level array of dashboards.ts
    returned, \* the results callers still hold, oldest first
    calls,    \* the dependencies a handler has invoked, oldest first
    cookies,  \* the cookies the browser holds for the server
    clock     \* Date.now(), in milliseconds

vars == <<args, ret, input, result, GRANULARITY_NOTES, returned, calls, cookies, clock>>

\* the state outside a single call
module == <<GRANULARITY_NOTES, returned, calls, cookies, clock>>

\* const GRANULARITY_NOTES = [...]: three notes
InitialNotes == <<"heart rate 5-minute", "sleep stages 5-minute", "no raw streams">>

\* no cookie has been set yet
NoCookies == [oura_session |-> [k |-> "undefined"], oura_oauth |-> [k |-> "undefined"]]

ModuleLoaded ==
    /\ GRANULARITY_NOTES = InitialNotes /\ returned = <<>> /\ calls = <<>>
    /\ cookies = NoCookies /\ clock = 0

(***************************************************************************)
(* Bounds of the model                                                     *)
(***************************************************************************)
MaxLen == 5       \* longest sequence handed to pearson / spearman
MaxVal == 2       \* sequence values are drawn from 0..MaxVal
MaxRows == 6      \* most daily rows handed to the matrix builders
MaxWindow == 8    \* longest calendar window the lag analysis rows lie in
MaxLagDays == 2   \* largest maxLag handed to computeLagAnalysis

(***************************************************************************)
(* JavaScript values                                                       *)
(***************************************************************************)
Undefined == [k |-> "undefined"]
Null == [k |-> "null"]
NotCalled == [fn |-> "none"]

Abs(i) == IF i < 0 THEN -i ELSE i
Sign(i) == IF i < 0 THEN -1 ELSE IF i = 0 THEN 0 ELSE 1

RECURSIVE GCD(_, _)
GCD(a, b) == IF b = 0 THEN a ELSE GCD(b, a % b)

\* the rational n/d in lowest terms, d > 0
Q(n, d) ==
    LET g == GCD(Abs(n), Abs(d))
        s == IF d < 0 THEN -1 ELSE 1
    IN  [k |-> "number", n |-> (s * n) \div g, d |-> (s * d) \div g]

Num(i) == [k |-> "number", n |-> i, d |-> 1]
Zero == Num(0)

\* the arithmetic cancels common factors before it multiplies, which keeps
\* the intermediate integers small
Add(a, b) ==
    LET g == GCD(a.d, b.d)
    IN  Q(a.n * (b.d \div g) + b.n * (a.d \div g), (a.d \div g) * b.d)
Neg(a) == [k |-> "number", n |-> -a.n, d |-> a.d]
Sub(a, b) == Add(a, Neg(b))
Mul(a, b) ==
    LET g1 == GCD(Abs(a.n), b.d)
        g2 == GCD(Abs(b.n), a.d)
    IN  [k |-> "number", n |-> (a.n \div g1) * (b.n \div g2),
                         d |-> (a.d \div g2) * (b.d \div g1)]
Inv(a) == IF a.n < 0 THEN [k |-> "number", n |-> -a.d, d |-> -a.n]
          ELSE [k |-> "number", n |-> a.d, d |-> a.n]
Div(a, b) == Mul(a, Inv(b))                   \* b # 0

\* the sign of p1/q1 - p2/q2 for q1, q2 > 0, by continued fractions (no products)
RECURSIVE CmpFrac(_, _, _, _)
CmpFrac(p1, q1, p2, q2) ==
    IF p1 \div q1 # p2 \div q2 THEN Sign((p1 \div q1) - (p2 \div q2))
    ELSE IF p1 % q1 = 0 \/ p2 % q2 = 0 THEN Sign((p1 % q1) - (p2 % q2))
    ELSE CmpFrac(q2, p2 % q2, q1, p1 % q1)

Lt(a, b) == CmpFrac(a.n, a.d, b.n, b.d) < 0
Leq(a, b) == CmpFrac(a.n, a.d, b.n, b.d) <= 0

\* naturals beyond 32 bits, as little-endian digits to the base BigBase
BigBase == 10000

RECURSIVE Big(_)
Big(i) == IF i < BigBase THEN <<i>> ELSE <<i % BigBase>> \o Big(i \div BigBase)

\* the sum of A[j] * B[k + 1 - j] over j <= i: column k of the long multiplication
RECURSIVE ColSum(_, _, _, _)
ColSum(A, B, k, i) ==
    IF i = 0 THEN 0
    ELSE ColSum(A, B, k, i - 1)
            + (IF k + 1 - i \in 1..Len(B) THEN A[i] * B[k + 1 - i] ELSE 0)

RECURSIVE BigDigits(_, _, _, _)
BigDigits(A, B, k, carried) ==
    IF k > Len(A) + Len(B) - 1 THEN (IF carried = 0 THEN <<>> ELSE Big(carried))
    ELSE <<carried % BigBase>>
            \o BigDigits(A, B, k + 1, ColSum(A, B, k + 1, Len(A)) + carried \div BigBase)

BigMul(A, B) ==
    IF A = <<0>> \/ B = <<0>> THEN <<0>>
    ELSE BigDigits(A, B, 1, ColSum(A, B, 1, Len(A)))

RECURSIVE BigCmpFrom(_, _, _)
BigCmpFrom(A, B, i) ==
    IF i = 0 THEN 0
    ELSE IF A[i] # B[i] THEN Sign(A[i] - B[i]) ELSE BigCmpFrom(A, B, i - 1)

\* the sign of A - B
BigCmp(A, B) ==
    IF Len(A) # Len(B) THEN Sign(Len(A) - Len(B)) ELSE BigCmpFrom(A, B, Len(A))

\* the real sgn * sqrt(a * b) for rationals a, b of the same sign, kept as
\* sgn and the square n/d in lowest terms, n and d as digits
RootOf(sgn, a, b) ==
    [ k |-> "number", sgn |-> sgn,
      n |-> BigMul(Big(Abs(a.n) \div GCD(Abs(a.n), b.d)),
                   Big(Abs(b.n) \div GCD(Abs(b.n), a.d))),
      d |-> BigMul(Big(a.d \div GCD(Abs(b.n), a.d)),
                   Big(b.d \div GCD(Abs(a.n), b.d))) ]

\* num / Math.sqrt(denX * denY) for denX, denY > 0: its square is
\* (num/denX) * (num/denY)
Root(num, denX, denY) == RootOf(Sign(num.n), Div(num, denX), Div(num, denY))

One == [k |-> "number", sgn |-> 1, n |-> <<1>>, d |-> <<1>>]

\* Math.abs(b) - Math.abs(a) for two correlation values: its sign
AbsDiffSign(b, a) == BigCmp(BigMul(b.n, a.d), BigMul(a.n, b.d))

(***************************************************************************)
(* Statistics primitives                                                   *)
(***************************************************************************)
isNumber(v) == v.k = "number"

RECURSIVE Sum(_, _)
Sum(values, i) == IF i = 0 THEN Zero ELSE Add(Sum(values, i - 1), values[i])

average(values) ==
    IF Len(values) = 0 THEN Zero
    ELSE Div(Sum(values, Len(values)), Num(Len(values)))

\* Array.prototype.sort(cmp): a stable sort; cmp(a, b) < 0 puts a before b
RECURSIVE InsertSorted(_, _, _)
InsertSorted(cmp(_, _), sorted, e) ==
    IF sorted = <<>> THEN <<e>>
    ELSE IF cmp(e, sorted[Len(sorted)]) < 0
         THEN Append(InsertSorted(cmp, SubSeq(sorted, 1, Len(sorted) - 1), e),
                     sorted[Len(sorted)])
         ELSE Append(sorted, e)

RECURSIVE Sort(_, _, _)
Sort(cmp(_, _), s, n) ==
    IF n = 0 THEN <<>> ELSE InsertSorted(cmp, Sort(cmp, s, n - 1), s[n])

\* the sign of a - b
CmpNum(a, b) == CmpFrac(a.n, a.d, b.n, b.d)

\* values.map((v, i) => ({v, i})).sort((a, b) => a.v - b.v), as the indices i
SortIndexed(values, n) ==
    LET byValue(a, b) == CmpNum(values[a], values[b])
    IN  Sort(byValue, [i \in 1..n |-> i], n)

\* the inner while of rank: first j > i whose value differs from indexed[i]
RECURSIVE TieEnd(_, _, _, _)
TieEnd(indexed, values, i, j) ==
    IF j <= Len(indexed) /\ values[indexed[j]] = values[indexed[i]]
    THEN TieEnd(indexed, values, i, j + 1)
    ELSE j

\* the outer while of rank; positions are 1-based here, so the 0-based
\* (i + j - 1) / 2 + 1 of the source is (i + j - 1) / 2
RECURSIVE RankLoop(_, _, _, _)
RankLoop(indexed, values, i, ranks) ==
    IF i > Len(indexed) THEN ranks
    ELSE LET j == TieEnd(indexed, values, i, i + 1)
             avgRank == Q(i + j - 1, 2)
             tied == {indexed[p] : p \in i..(j - 1)}
         IN  RankLoop(indexed, values, j,
                      [p \in DOMAIN ranks |-> IF p \in tied THEN avgRank ELSE ranks[p]])

\* mutant: ties get consecutive ranks instead of their mean
rankNoTies(values) ==
    LET indexed == SortIndexed(values, Len(values))
    IN  [p \in 1..Len(values) |-> Num(CHOOSE q \in 1..Len(values) : indexed[q] = p)]

rank(values) ==
    RankLoop(SortIndexed(values, Len(values)), values, 1,
             [p \in 1..Len(values) |-> Undefined])

RECURSIVE SumProd(_, _, _, _, _)
SumProd(xs, ys, meanX, meanY, i) ==
    IF i = 0 THEN Zero
    ELSE Add(SumProd(xs, ys, meanX, meanY, i - 1),
             Mul(Sub(xs[i], meanX), Sub(ys[i], meanY)))

MinPoints == 5

\* mutant: the minimum-points guard off by one
pearsonOffByOne(xs, ys) ==
    IF Len(xs) # Len(ys) \/ Len(xs) < MinPoints - 1 THEN Null
    ELSE LET n == Len(xs)
             meanX == average(xs)
             meanY == average(ys)
             num == SumProd(xs, ys, meanX, meanY, n)
             denX == SumProd(xs, xs, meanX, meanX, n)
             denY == SumProd(ys, ys, meanY, meanY, n)
         IN  IF denX.n = 0 \/ denY.n = 0 THEN Null ELSE Root(num, denX, denY)

pearson(xs, ys) ==
    IF Len(xs) # Len(ys) \/ Len(xs) < MinPoints THEN Null
    ELSE LET n == Len(xs)
             meanX == average(xs)
             meanY == average(ys)
             num == SumProd(xs, ys, meanX, meanY, n)
             denX == SumProd(xs, xs, meanX, meanX, n)
             denY == SumProd(ys, ys, meanY, meanY, n)
         IN  \* den === 0 exactly when denX * denY = 0
             IF denX.n = 0 \/ denY.n = 0 THEN Null ELSE Root(num, denX, denY)

spearman(xs, ys) ==
    IF Len(xs) # Len(ys) \/ Len(xs) < MinPoints THEN Null
    ELSE pearson(rank(xs), rank(ys))

correlate(method, xs, ys) ==
    IF method = "spearman" THEN spearman(xs, ys) ELSE pearson(xs, ys)

(***************************************************************************)
(* Calendar days: "YYYY-MM-DD" as <<y, m, d>>                              *)
(***************************************************************************)
IsLeap(y) == (y % 4 = 0 /\ y % 100 # 0) \/ y % 400 = 0

DaysInMonth(y, m) ==
    IF m = 2 THEN (IF IsLeap(y) THEN 29 ELSE 28)
    ELSE IF m \in {4, 6, 9, 11} THEN 30 ELSE 31

NextDay(day) ==
    IF day[3] < DaysInMonth(day[1], day[2]) THEN <<day[1], day[2], day[3] + 1>>
    ELSE IF day[2] < 12 THEN <<day[1], day[2] + 1, 1>>
    ELSE <<day[1] + 1, 1, 1>>

PrevDay(day) ==
    IF day[3] > 1 THEN <<day[1], day[2], day[3] - 1>>
    ELSE IF day[2] > 1 THEN <<day[1], day[2] - 1, DaysInMonth(day[1], day[2] - 1)>>
    ELSE <<day[1] - 1, 12, 31>>

\* mutant: the day-of-month is offset without carrying into the month
addDaysNoCarry(day, delta) == <<day[1], day[2], day[3] + delta>>

\* Date.setUTCDate(getUTCDate() + delta) carries into months and years
RECURSIVE addDays(_, _)
addDays(day, delta) ==
    IF delta = 0 THEN day
    ELSE IF delta > 0 THEN addDays(NextDay(day), delta - 1)
    ELSE addDays(PrevDay(day), delta + 1)

\* a.localeCompare(b) on zero-padded ISO days
CmpDay(a, b) ==
    IF a[1] # b[1] THEN Sign(a[1] - b[1])
    ELSE IF a[2] # b[2] THEN Sign(a[2] - b[2])
    ELSE Sign(a[3] - b[3])

\* Date.getUTCDay(): 0 = Sunday .. 6 = Saturday (Zeller's congruence)
getUTCDay(day) ==
    LET m == IF day[2] < 3 THEN day[2] + 12 ELSE day[2]
        y == IF day[2] < 3 THEN day[1] - 1 ELSE day[1]
        h == (day[3] + ((13 * (m + 1)) \div 5) + (y % 100) + ((y % 100) \div 4)
                + ((y \div 100) \div 4) + 5 * (y \div 100)) % 7
    IN  (h + 6) % 7

(***************************************************************************)
(* DailyRow and the correlation / lag engine                               *)
(***************************************************************************)
RowFields ==
    { "sleep_score", "activity_score", "readiness_score", "stress_high_min",
      "recovery_high_min", "steps", "total_calories", "active_calories",
      "resilience_level", "spo2_avg", "breathing_disturbance_index",
      "cardiovascular_age", "vo2_max", "sleep_duration_h", "sleep_efficiency",
      "avg_hr", "avg_hrv", "temperature_delta", "respiratory_rate", "deep_pct",
      "rem_pct", "light_pct", "awake_pct", "bedtime_start", "bedtime_end",
      "bedtime_clock_min", "wake_clock_min", "midsleep_clock_min",
      "bedtime_deviation_min", "workout_count", "workout_intensity_score" }

\* mutant: a new row starts with every metric at 0
NewRowZeroed(day) == [f \in RowFields \cup {"day"} |-> IF f = "day" THEN day ELSE Zero]

\* const row: DailyRow = { day }
NewRow(day) == [f \in RowFields \cup {"day"} |-> IF f = "day" THEN day ELSE Undefined]

Column(rows, key) == [i \in 1..Len(rows) |-> rows[i][key]]

RECURSIVE pairwiseLoop(_, _, _)
pairwiseLoop(xs, ys, i) ==
    IF i = 0 THEN [x |-> <<>>, y |-> <<>>]
    ELSE LET acc == pairwiseLoop(xs, ys, i - 1)
         IN  IF isNumber(xs[i]) /\ isNumber(ys[i])
             THEN [x |-> Append(acc.x, xs[i]), y |-> Append(acc.y, ys[i])]
             ELSE acc

Min(a, b) == IF a < b THEN a ELSE b
Max(a, b) == IF a > b THEN a ELSE b

\* mutant: a pair is kept when x alone is a number
RECURSIVE pairwiseXOnlyLoop(_, _, _)
pairwiseXOnlyLoop(xs, ys, i) ==
    IF i = 0 THEN [x |-> <<>>, y |-> <<>>]
    ELSE LET acc == pairwiseXOnlyLoop(xs, ys, i - 1)
         IN  IF isNumber(xs[i])
             THEN [x |-> Append(acc.x, xs[i]),
                   y |-> Append(acc.y, IF isNumber(ys[i]) THEN ys[i] ELSE Zero)]
             ELSE acc

pairwiseXOnly(xs, ys) == pairwiseXOnlyLoop(xs, ys, Min(Len(xs), Len(ys)))

pairwise(xs, ys) == pairwiseLoop(xs, ys, Min(Len(xs), Len(ys)))

DetrendWindow == 7

\* mutant: the mean is taken over the earlier days of the window only
detrendEarlierOnly(values, window) ==
    [i \in 1..Len(values) |->
        IF ~isNumber(values[i]) THEN Undefined
        ELSE LET start == Max(1, i - window + 1)
                 slice == SelectSeq(SubSeq(values, start, i - 1), isNumber)
             IN  IF Len(slice) = 0 THEN Undefined
                 ELSE Sub(values[i], average(slice))]

detrend(values, window) ==
    [i \in 1..Len(values) |->
        IF ~isNumber(values[i]) THEN Undefined
        ELSE LET start == Max(1, i - window + 1)
                 slice == SelectSeq(SubSeq(values, start, i), isNumber)
             IN  IF Len(slice) = 0 THEN Undefined
                 ELSE Sub(values[i], average(slice))]

\* mutant: only the cells on and above the diagonal are computed
MatrixOverUpper(valuesByKey, keys, method) ==
    LET K == 1..Len(keys)
        cells == [i \in K |-> [j \in K |->
                    pairwiseLoop(valuesByKey[i], valuesByKey[j],
                                 Min(Len(valuesByKey[i]), Len(valuesByKey[j])))]]
    IN  [ method |-> method,
          labels |-> keys,
          matrix |-> [i \in K |-> [j \in K |->
                        IF j < i THEN Null
                        ELSE correlate(method, cells[i][j].x, cells[i][j].y)]],
          counts |-> [i \in K |-> [j \in K |->
                        IF j < i THEN 0 ELSE Len(cells[i][j].x)]] ]

\* the double loop shared by both matrix builders: one pairwise per cell,
\* r pushed to matrix[i] and x.length to counts[i]
MatrixOver(valuesByKey, keys, method) ==
    LET K == 1..Len(keys)
        cells == [i \in K |-> [j \in K |-> pairwise(valuesByKey[i], valuesByKey[j])]]
    IN  [ method |-> method,
          labels |-> keys,
          matrix |-> [i \in K |-> [j \in K |->
                        correlate(method, cells[i][j].x, cells[i][j].y)]],
          counts |-> [i \in K |-> [j \in K |-> Len(cells[i][j].x)]] ]

\* mutant: the raw matrix is computed over the detrended columns
correlationMatrixOverResiduals(rows, keys, method) ==
    MatrixOver([k \in 1..Len(keys) |-> detrend(Column(rows, keys[k]), DetrendWindow)],
               keys, method)

correlationMatrix(rows, keys, method) ==
    MatrixOver([k \in 1..Len(keys) |-> Column(rows, keys[k])], keys, method)

correlationMatrixDetrended(rows, keys, method) ==
    MatrixOver([k \in 1..Len(keys) |-> detrend(Column(rows, keys[k]), DetrendWindow)],
               keys, method)

\* new Map(rows.map(r => [r.day, r])).get(day): the last row of that day
byDayGet(rows, day) ==
    LET hits == {i \in 1..Len(rows) : rows[i].day = day}
    IN  IF hits = {} THEN Undefined
        ELSE rows[CHOOSE i \in hits : \A j \in hits : j <= i]

\* the value returned by lagCorrelation for the collected pairs
lagEntry(lag, method, p) == [lag |-> lag, r |-> correlate(method, p.x, p.y), n |-> Len(p.x)]

\* row[yKey] of a looked-up row, undefined when there is none
targetValue(target, yKey) == IF target # Undefined THEN target[yKey] ELSE Undefined

\* mutant: the target is the row lag positions further in the array
lagCorrelationByIndex(rows, xKey, yKey, lag, method) ==
    lagEntry(lag, method,
             pairwise(Column(rows, xKey),
                      [i \in 1..Len(rows) |->
                          IF i + lag \in 1..Len(rows) THEN rows[i + lag][yKey]
                          ELSE Undefined]))

lagCorrelation(rows, xKey, yKey, lag, method) ==
    lagEntry(lag, method,
             pairwise(Column(rows, xKey),
                      [i \in 1..Len(rows) |->
                          targetValue(byDayGet(rows, addDays(rows[i].day, lag)), yKey)]))

\* mutant: ties on |r| keep the smaller lag
CmpBestSmallerLag(a, b) ==
    LET diff == AbsDiffSign(b.r, a.r)
    IN  IF diff # 0 THEN diff ELSE Sign(a.lag - b.lag)

\* the comparator of computeLagAnalysis: larger |r| first, then larger lag
CmpBest(a, b) ==
    LET diff == AbsDiffSign(b.r, a.r)
    IN  IF diff # 0 THEN diff ELSE Sign(b.lag - a.lag)

\* for (let lag = -maxLag; lag <= maxLag; lag += 1) lags.push(lagCorrelation(...))
RECURSIVE lagLoop(_, _, _, _, _, _)
lagLoop(rows, xKey, yKey, maxLag, method, lag) ==
    IF lag > maxLag THEN <<>>
    ELSE <<lagCorrelation(rows, xKey, yKey, lag, method)>>
            \o lagLoop(rows, xKey, yKey, maxLag, method, lag + 1)

\* lags.filter((l) => l.r !== null)
withR(lags) == SelectSeq(lags, LAMBDA l : l.r # Null)

\* .sort(...): the candidates, best first
bestFirst(candidates) == Sort(CmpBest, candidates, Len(candidates))

\* the returned analysis; lag and n of an entry are integers, best_lag,
\* which may be null, is a JavaScript value
lagAnalysis(id, xKey, yKey, lags, sorted) ==
    [ id |-> id, xKey |-> xKey, yKey |-> yKey, lags |-> lags,
      best_lag |-> IF sorted # <<>> THEN Num(sorted[1].lag) ELSE Null,
      best_r |-> IF sorted # <<>> THEN sorted[1].r ELSE Null ]

lagAnalysisOver(id, xKey, yKey, lags) ==
    lagAnalysis(id, xKey, yKey, lags, bestFirst(withR(lags)))

computeLagAnalysis(rows, xKey, yKey, maxLag, method, id) ==
    lagAnalysisOver(id, xKey, yKey, lagLoop(rows, xKey, yKey, maxLag, method, -maxLag))

(***************************************************************************)
(* JavaScript operators on values that may be missing                      *)
(***************************************************************************)
NaN == [k |-> "nan"]

\* ToNumber: null is 0, undefined is NaN
ToNumber(v) == IF isNumber(v) THEN v ELSE IF v = Null THEN Zero ELSE NaN

\* a / b, a * b, a + b, a - b; no divisor of the model is 0
JsDiv(a, b) ==
    IF isNumber(ToNumber(a)) /\ isNumber(ToNumber(b)) THEN Div(ToNumber(a), ToNumber(b))
    ELSE NaN
JsMul(a, b) ==
    IF isNumber(ToNumber(a)) /\ isNumber(ToNumber(b)) THEN Mul(ToNumber(a), ToNumber(b))
    ELSE NaN
JsAdd(a, b) ==
    IF isNumber(ToNumber(a)) /\ isNumber(ToNumber(b)) THEN Add(ToNumber(a), ToNumber(b))
    ELSE NaN
JsSub(a, b) ==
    IF isNumber(ToNumber(a)) /\ isNumber(ToNumber(b)) THEN Sub(ToNumber(a), ToNumber(b))
    ELSE NaN

\* a % m for a >= 0, m a positive integer
JsMod(a, m) ==
    IF isNumber(a) THEN Q(a.n % (m * a.d), a.d) ELSE NaN

Floor(a) == a.n \div a.d
Ceil(a) == -((-a.n) \div a.d)

\* truthiness: 0, NaN, null and undefined are falsy; strings of the model are non-empty
Truthy(v) == IF isNumber(v) THEN v.n # 0 ELSE v.k = "string"

\* a ?? b
Coalesce(a, b) == IF a = Null \/ a = Undefined THEN b ELSE a

\* an ISO 8601 timestamp: wall clock hh:mm at UTC offset off (minutes)
Iso(hh, mm, off) == [k |-> "string", hh |-> hh, mm |-> mm, off |-> off]

Str(text) == [k |-> "string", s |-> text]

\* mutant: the wall clock is read without converting to UTC
clockMinutesLocal(iso) ==
    IF ~Truthy(iso) THEN Undefined ELSE Num(iso.hh * 60 + iso.mm)

\* new Date(iso): getUTCHours() * 60 + getUTCMinutes()
clockMinutes(iso) ==
    IF ~Truthy(iso) THEN Undefined
    ELSE Num((iso.hh * 60 + iso.mm - iso.off) % (24 * 60))

\* mutant: the median of no value is 0
medianZeroOnEmpty(values) ==
    IF Len(values) = 0 THEN Zero
    ELSE LET sorted == Sort(CmpNum, values, Len(values))
             mid == Len(sorted) \div 2
         IN  IF Len(sorted) % 2 = 0
             THEN Div(Add(sorted[mid], sorted[mid + 1]), Num(2))
             ELSE sorted[mid + 1]

median(values) ==
    IF Len(values) = 0 THEN Null
    ELSE LET sorted == Sort(CmpNum, values, Len(values))
             mid == Len(sorted) \div 2          \* 0-based index
         IN  IF Len(sorted) % 2 = 0
             THEN Div(Add(sorted[mid], sorted[mid + 1]), Num(2))
             ELSE sorted[mid + 1]

\* the bin a value is counted in (0-based), or -1
BinIndex(v, start, binSize, nbins) == Min(Floor(Div(Sub(v, Num(start)), Num(binSize))), nbins - 1)

histogram(values, binSize, min, max) ==
    IF Len(values) = 0 THEN <<>>
    ELSE LET sorted == Sort(CmpNum, values, Len(values))
             lo == Coalesce(min, sorted[1])
             hi == Coalesce(max, sorted[Len(sorted)])
             start == Floor(Div(lo, Num(binSize))) * binSize
             end == Ceil(Div(hi, Num(binSize))) * binSize
             nbins == IF end > start THEN (end - start + binSize - 1) \div binSize ELSE 0
         IN  [b \in 1..nbins |->
                [ x0 |-> start + (b - 1) * binSize,
                  x1 |-> start + b * binSize,
                  count |-> Cardinality({i \in 1..Len(values) :
                                BinIndex(values[i], start, binSize, nbins) = b - 1}) ]]

(***************************************************************************)
(* buildDashboards                                                         *)
(***************************************************************************)
RECURSIVE FoldLeft(_, _, _, _)
\* Len(acc) < 0 never holds: it makes TLC evaluate the accumulator at each
\* step instead of nesting one unevaluated step per record
FoldLeft(op(_, _), acc, s, i) ==
    IF i > Len(s) \/ Len(acc) < 0 THEN acc ELSE FoldLeft(op, op(acc, s[i]), s, i + 1)

HasDay(rows, day) == \E i \in 1..Len(rows) : rows[i].day = day

\* rowsByDay after ensureRow(day): a Map keeps insertion order
ensureRow(rows, day) == IF HasDay(rows, day) THEN rows ELSE Append(rows, NewRow(day))

\* const row = ensureRow(day); followed by assignments to row
WithRow(rows, day, assign(_)) ==
    LET ensured == ensureRow(rows, day)
        i == CHOOSE i \in 1..Len(ensured) : ensured[i].day = day
    IN  [ensured EXCEPT ![i] = assign(ensured[i])]

putSleep(rows, d) ==
    WithRow(rows, d.day, LAMBDA row : [row EXCEPT !.sleep_score = d.score])

putActivity(rows, d) ==
    WithRow(rows, d.day, LAMBDA row :
        [row EXCEPT !.activity_score = d.score, !.steps = d.steps,
                    !.total_calories = d.total_calories,
                    !.active_calories = d.active_calories])

putReadiness(rows, d) ==
    WithRow(rows, d.day, LAMBDA row : [row EXCEPT !.readiness_score = d.score])

putStress(rows, d) ==
    WithRow(rows, d.day, LAMBDA row :
        [row EXCEPT !.stress_high_min = JsDiv(d.stress_high, Num(60)),
                    !.recovery_high_min = JsDiv(d.recovery_high, Num(60))])

putResilience(rows, d) ==
    WithRow(rows, d.day, LAMBDA row : [row EXCEPT !.resilience_level = d.level])

putSpo2(rows, d) ==
    WithRow(rows, d.day, LAMBDA row :
        [row EXCEPT !.spo2_avg = IF d.spo2_percentage = Null \/ d.spo2_percentage = Undefined
                                 THEN Undefined ELSE d.spo2_percentage.average,
                    !.breathing_disturbance_index = d.breathing_disturbance_index])

putCardioAge(rows, d) ==
    WithRow(rows, d.day, LAMBDA row : [row EXCEPT !.cardiovascular_age = d.cardiovascular_age])

putVo2Max(rows, d) ==
    WithRow(rows, d.day, LAMBDA row : [row EXCEPT !.vo2_max = d.vo2_max])

Pct(part, total) == JsMul(JsDiv(part, total), Num(100))

\* mutant: a missing awake_time is not replaced by 0
putSleepDetailedAwakeRaw(rows, sl) ==
    WithRow(rows, sl.day, LAMBDA row :
        LET verbatim ==
                [row EXCEPT
                    !.sleep_duration_h = IF Truthy(sl.total_sleep_duration)
                                         THEN JsDiv(sl.total_sleep_duration, Num(3600))
                                         ELSE row.sleep_duration_h,
                    !.sleep_efficiency = Coalesce(sl.efficiency, row.sleep_efficiency),
                    !.avg_hr = Coalesce(sl.average_heart_rate, row.avg_hr),
                    !.avg_hrv = Coalesce(sl.average_hrv, row.avg_hrv),
                    !.temperature_delta = Coalesce(sl.temperature_delta, row.temperature_delta),
                    !.respiratory_rate = Coalesce(sl.respiratory_rate, row.respiratory_rate),
                    !.bedtime_start = Coalesce(sl.bedtime_start, row.bedtime_start),
                    !.bedtime_end = Coalesce(sl.bedtime_end, row.bedtime_end)]
        IN  IF Truthy(sl.total_sleep_duration) /\ sl.total_sleep_duration.n > 0
            THEN [verbatim EXCEPT
                    !.deep_pct = Pct(sl.deep_sleep_duration, sl.total_sleep_duration),
                    !.rem_pct = Pct(sl.rem_sleep_duration, sl.total_sleep_duration),
                    !.light_pct = Pct(sl.light_sleep_duration, sl.total_sleep_duration),
                    !.awake_pct = Pct(sl.awake_time, sl.total_sleep_duration)]
            ELSE verbatim)

putSleepDetailed(rows, sl) ==
    WithRow(rows, sl.day, LAMBDA row :
        LET verbatim ==
                [row EXCEPT
                    !.sleep_duration_h = IF Truthy(sl.total_sleep_duration)
                                         THEN JsDiv(sl.total_sleep_duration, Num(3600))
                                         ELSE row.sleep_duration_h,
                    !.sleep_efficiency = Coalesce(sl.efficiency, row.sleep_efficiency),
                    !.avg_hr = Coalesce(sl.average_heart_rate, row.avg_hr),
                    !.avg_hrv = Coalesce(sl.average_hrv, row.avg_hrv),
                    !.temperature_delta = Coalesce(sl.temperature_delta, row.temperature_delta),
                    !.respiratory_rate = Coalesce(sl.respiratory_rate, row.respiratory_rate),
                    !.bedtime_start = Coalesce(sl.bedtime_start, row.bedtime_start),
                    !.bedtime_end = Coalesce(sl.bedtime_end, row.bedtime_end)]
        IN  IF Truthy(sl.total_sleep_duration) /\ sl.total_sleep_duration.n > 0
            THEN [verbatim EXCEPT
                    !.deep_pct = Pct(sl.deep_sleep_duration, sl.total_sleep_duration),
                    !.rem_pct = Pct(sl.rem_sleep_duration, sl.total_sleep_duration),
                    !.light_pct = Pct(sl.light_sleep_duration, sl.total_sleep_duration),
                    !.awake_pct = Pct(Coalesce(sl.awake_time, Zero), sl.total_sleep_duration)]
            ELSE verbatim)

\* mutant: every workout weighs 1
intensityWeightFlat(intensity) == 1

intensityWeight(intensity) ==
    IF intensity = "hard" THEN 3 ELSE IF intensity = "moderate" THEN 2 ELSE 1

\* workoutByDay after one workout; a Map keeps insertion order
countWorkout(byDay, w) ==
    IF \E i \in 1..Len(byDay) : byDay[i].day = w.day
    THEN [i \in 1..Len(byDay) |->
            IF byDay[i].day = w.day
            THEN [byDay[i] EXCEPT !.count = @ + 1,
                                  !.intensityScore = @ + intensityWeight(w.intensity)]
            ELSE byDay[i]]
    ELSE Append(byDay, [day |-> w.day, count |-> 1,
                        intensityScore |-> intensityWeight(w.intensity)])

putWorkoutDay(rows, e) ==
    WithRow(rows, e.day, LAMBDA row :
        [row EXCEPT !.workout_count = Num(e.count),
                    !.workout_intensity_score = Num(e.intensityScore)])

\* rowsByDay after all category loops, in insertion order
mergeCategories(in) ==
    LET r1 == FoldLeft(putSleep, <<>>, in.sleep, 1)
        r2 == FoldLeft(putActivity, r1, in.activity, 1)
        r3 == FoldLeft(putReadiness, r2, in.readiness, 1)
        r4 == FoldLeft(putStress, r3, in.stress, 1)
        r5 == FoldLeft(putResilience, r4, in.resilience, 1)
        r6 == FoldLeft(putSpo2, r5, in.spo2, 1)
        r7 == FoldLeft(putCardioAge, r6, in.cardioAge, 1)
        r8 == FoldLeft(putVo2Max, r7, in.vo2Max, 1)
        r9 == FoldLeft(putSleepDetailed, r8, in.sleepDetailed, 1)
        workoutByDay == FoldLeft(countWorkout, <<>>, in.workouts, 1)
    IN  FoldLeft(putWorkoutDay, r9, workoutByDay, 1)

\* mutant: the comparator with its operands swapped
CmpRowDayReversed(a, b) == CmpDay(b.day, a.day)

\* (a, b) => a.day.localeCompare(b.day)
CmpRowDay(a, b) == CmpDay(a.day, b.day)

\* the second pass over the sorted rows
secondPass(row, bedtimeMedian) ==
    LET bcm == clockMinutes(row.bedtime_start)
        withClock == [row EXCEPT !.bedtime_clock_min = bcm,
                                 !.wake_clock_min = clockMinutes(row.bedtime_end)]
        withMid ==
            IF bcm # Undefined /\ row.sleep_duration_h # Undefined
            THEN [withClock EXCEPT !.midsleep_clock_min =
                    JsMod(JsAdd(bcm, JsMul(JsMul(row.sleep_duration_h, Num(60)), Q(1, 2))),
                          24 * 60)]
            ELSE withClock
    IN  IF bedtimeMedian # Null /\ bcm # Undefined
        THEN [withMid EXCEPT !.bedtime_deviation_min = JsSub(bcm, bedtimeMedian)]
        ELSE withMid

metricKeys ==
    << "sleep_score", "readiness_score", "activity_score", "stress_high_min",
       "recovery_high_min", "steps", "avg_hrv", "avg_hr", "sleep_duration_h",
       "sleep_efficiency", "deep_pct", "rem_pct", "bedtime_clock_min",
       "workout_intensity_score", "spo2_avg", "breathing_disturbance_index",
       "vo2_max", "cardiovascular_age" >>

Numbers(values) == SelectSeq(values, isNumber)

\* the five cards: static text left out, the computed chart data kept
cardsOf(lagAnalyses, bedtimeBins) ==
    << [ id |-> "lag_lab",
         charts |-> << [type |-> "bar", xKey |-> "activity_score",
                        yKey |-> "readiness_score", lags |-> lagAnalyses[1].lags],
                       [type |-> "scatter", xKey |-> "activity_score",
                        yKey |-> "readiness_score",
                        lag |-> Coalesce(lagAnalyses[1].best_lag, Zero)] >> ],
       [ id |-> "sleep_architecture",
         charts |-> << [type |-> "scatter", xKey |-> "deep_pct", yKey |-> "readiness_score"],
                       [type |-> "scatter", xKey |-> "avg_hrv", yKey |-> "readiness_score"] >> ],
       [ id |-> "stress_sleep",
         charts |-> << [type |-> "scatter", xKey |-> "stress_high_min",
                        yKey |-> "sleep_efficiency"],
                       [type |-> "scatter", xKey |-> "stress_high_min",
                        yKey |-> "sleep_score"] >> ],
       [ id |-> "bedtime_consistency",
         charts |-> << [type |-> "histogram", key |-> "bedtime_clock_min",
                        bins |-> bedtimeBins],
                       [type |-> "scatter", xKey |-> "bedtime_deviation_min",
                        yKey |-> "sleep_score"] >> ],
       [ id |-> "breathing_oxygen",
         charts |-> << [type |-> "scatter", xKey |-> "spo2_avg", yKey |-> "sleep_score"],
                       [type |-> "scatter", xKey |-> "breathing_disturbance_index",
                        yKey |-> "readiness_score"] >> ] >>

\* Array.from(rowsByDay.values()).sort(...)
sortRows(rowsByDay) == Sort(CmpRowDay, rowsByDay, Len(rowsByDay))

\* median of the rows' bedtime clock minutes
bedtimeMedianOf(sortedRows) ==
    median(Numbers([i \in 1..Len(sortedRows) |->
                       clockMinutes(sortedRows[i].bedtime_start)]))

\* for (const row of dailyRows): the clock fields
RECURSIVE secondPassLoop(_, _, _)
secondPassLoop(sortedRows, bedtimeMedian, i) ==
    IF i = 0 THEN <<>>
    ELSE Append(secondPassLoop(sortedRows, bedtimeMedian, i - 1),
                secondPass(sortedRows[i], bedtimeMedian))

withClockFields(sortedRows) ==
    secondPassLoop(sortedRows, bedtimeMedianOf(sortedRows), Len(sortedRows))

\* dailyRows as every later step sees them
dailyRowsOf(in) == withClockFields(sortRows(mergeCategories(in)))

\* weekendMid (weekend = TRUE) or weekdayMid (weekend = FALSE)
midsleeps(dailyRows, weekend) ==
    Column(SelectSeq(dailyRows, LAMBDA row :
                        /\ isNumber(row.midsleep_clock_min)
                        /\ (getUTCDay(row.day) \in {0, 6}) = weekend),
           "midsleep_clock_min")

absDiff(diff) == IF diff.n < 0 THEN Neg(diff) ELSE diff

\* mutant: the difference keeps its sign
jetlagSigned(weekendMedian, weekdayMedian) ==
    IF weekendMedian # Null /\ weekdayMedian # Null
    THEN Sub(weekendMedian, weekdayMedian)
    ELSE Null

jetlagOf(weekendMedian, weekdayMedian) ==
    IF weekendMedian # Null /\ weekdayMedian # Null
    THEN absDiff(Sub(weekendMedian, weekdayMedian))
    ELSE Null

socialJetlag(dailyRows) ==
    jetlagOf(median(midsleeps(dailyRows, TRUE)), median(midsleeps(dailyRows, FALSE)))

lagAnalysesOf(dailyRows, maxLagDays, method) ==
    << computeLagAnalysis(dailyRows, "activity_score", "readiness_score", maxLagDays,
                          method, "lag_activity_readiness"),
       computeLagAnalysis(dailyRows, "workout_intensity_score", "readiness_score",
                          maxLagDays, method, "lag_workout_readiness"),
       computeLagAnalysis(dailyRows, "stress_high_min", "sleep_score", maxLagDays,
                          method, "lag_stress_sleep"),
       computeLagAnalysis(dailyRows, "sleep_duration_h", "readiness_score", maxLagDays,
                          method, "lag_sleep_readiness") >>

bedtimeBinsOf(dailyRows) ==
    histogram(Numbers(Column(dailyRows, "bedtime_clock_min")), 30, Zero, Num(24 * 60))

\* the returned object
dashboardsResult(dailyRows, method, lagAnalyses) ==
    [ fn |-> "buildDashboards",
      summary |-> [days |-> Len(dailyRows), social_jetlag_min |-> socialJetlag(dailyRows)],
      granularity_notes |-> "GRANULARITY_NOTES",
      daily_rows |-> dailyRows,
      correlation |-> correlationMatrix(dailyRows, metricKeys, method),
      correlation_detrended |-> correlationMatrixDetrended(dailyRows, metricKeys, method),
      lag_analyses |-> lagAnalyses,
      cards |-> cardsOf(lagAnalyses, bedtimeBinsOf(dailyRows)) ]

dashboardsOver(dailyRows, maxLagDays, method) ==
    dashboardsResult(dailyRows, method, lagAnalysesOf(dailyRows, maxLagDays, method))

buildDashboards(in) ==
    dashboardsOver(dailyRowsOf(in), in.maxLagDays, in.correlationMethod)

(***************************************************************************)
(* pearson and spearman applied to drawn sequences                         *)
(***************************************************************************)
SeqsOf(S, n) == [1..n -> S]

NumSeq(f) == [i \in DOMAIN f |-> Num(f[i])]

\* the x sequences paired with a drawn ys
XFor(ys) ==
    LET n == Len(ys)
    IN  { [i \in 1..n |-> Num(i)],                  \* strictly increasing
          [i \in 1..n |-> Num(n - i)],              \* strictly decreasing
          [i \in 1..n |-> Num(7)],                  \* zero variance
          [i \in 1..n |-> Q(i + (i % 2), 2)],       \* tied in pairs
          [i \in 1..n |-> Q(i * i - 3 * i, 4)],     \* not monotone, fractional
          ys,                                       \* the sequence itself
          [i \in 1..n |-> Add(Mul(Num(3), ys[i]), Q(1, 2))],  \* increasing map of ys
          [i \in 1..(n + 1) |-> Num(i)] }           \* one point more

StatsInit ==
    /\ \E n \in (MinPoints - 1)..MaxLen :
         \E f \in SeqsOf(0..MaxVal, n) :
           \E xs \in XFor(NumSeq(f)) :
             args = [xs |-> xs, ys |-> NumSeq(f)]
    /\ ret = NotCalled
    /\ input = NotCalled
    /\ result = NotCalled
    /\ ModuleLoaded

CallPearson ==
    /\ ret = NotCalled
    /\ ret' = [fn |-> "pearson", value |-> pearson(args.xs, args.ys)]
    /\ UNCHANGED <<args, input, result>>
    /\ UNCHANGED module

CallSpearman ==
    /\ ret = NotCalled
    /\ ret' = [fn |-> "spearman", value |-> spearman(args.xs, args.ys)]
    /\ UNCHANGED <<args, input, result>>
    /\ UNCHANGED module

StatsNext == CallPearson \/ CallSpearman

SpecStats == StatsInit /\ [][StatsNext]_vars

Called(fn) == ret # NotCalled /\ ret.fn = fn

AllTied(s) == \A i, j \in DOMAIN s : s[i] = s[j]

\* a finite correlation value in [-1, 1]
InUnitRange(r) ==
    isNumber(r) /\ r.d # <<0>> /\ BigCmp(r.n, r.d) <= 0 /\ r.sgn \in {-1, 0, 1}

NullCase(xs, ys) ==
    Len(xs) # Len(ys) \/ Len(xs) < 5 \/ AllTied(xs) \/ AllTied(ys)

OrderIso(xs, ys) ==
    /\ Len(xs) = Len(ys)
    /\ \A i, j \in DOMAIN xs : Lt(xs[i], xs[j]) <=> Lt(ys[i], ys[j])

\* the mean of the 1-based positions a value occupies in sorted order
MeanPosition(values, i) ==
    LET less == Cardinality({j \in DOMAIN values : Lt(values[j], values[i])})
        leq == Cardinality({j \in DOMAIN values : Leq(values[j], values[i])})
    IN  Q(less + 1 + leq, 2)

RanksAreMeanPositions(values) ==
    \A i \in DOMAIN values : rank(values)[i] = MeanPosition(values, i)

\* C7 as stated: spearman is 1 for any two sequences of at least 5 points
\* that are strictly increasing functions of each other.
C7_Original ==
    (Called("spearman") /\ Len(args.xs) >= 5 /\ OrderIso(args.xs, args.ys)) =>
        ret.value = One

\* C7 amended: spearman is 1 for two sequences of at least 5 points that are
\* strictly increasing functions of each other and hold at least two
\* distinct values; rank gives tied values the mean of their positions.
C7_MonotoneIsOne ==
    /\ (Called("spearman") /\ Len(args.xs) >= 5 /\ OrderIso(args.xs, args.ys)
            /\ ~AllTied(args.xs)) => ret.value = One
    /\ RanksAreMeanPositions(args.xs) /\ RanksAreMeanPositions(args.ys)

C7_Witness ==
    /\ Called("spearman") /\ Len(args.xs) >= 5 /\ OrderIso(args.xs, args.ys)
    /\ args.xs # args.ys
    /\ \E i, j \in DOMAIN args.xs : i # j /\ args.xs[i] = args.xs[j]
    /\ ret.value = One

(***************************************************************************)
(* Drawn daily rows                                                        *)
(***************************************************************************)
\* calendar windows written out day by day: across a leap day, across a
\* year end, across the end of a 28-day February
Calendars ==
    { << <<2024, 2, 26>>, <<2024, 2, 27>>, <<2024, 2, 28>>, <<2024, 2, 29>>,
         <<2024, 3, 1>>, <<2024, 3, 2>>, <<2024, 3, 3>>, <<2024, 3, 4>>,
         <<2024, 3, 5>>, <<2024, 3, 6>> >>,
      << <<2023, 12, 28>>, <<2023, 12, 29>>, <<2023, 12, 30>>, <<2023, 12, 31>>,
         <<2024, 1, 1>>, <<2024, 1, 2>>, <<2024, 1, 3>>, <<2024, 1, 4>>,
         <<2024, 1, 5>>, <<2024, 1, 6>> >>,
      << <<2023, 2, 24>>, <<2023, 2, 25>>, <<2023, 2, 26>>, <<2023, 2, 27>>,
         <<2023, 2, 28>>, <<2023, 3, 1>>, <<2023, 3, 2>>, <<2023, 3, 3>>,
         <<2023, 3, 4>>, <<2023, 3, 5>> >> }

LeapCalendar == {c \in Calendars : c[1] = <<2024, 2, 26>>}

\* sample series, by position in the window
Pattern(p, i) ==
    CASE p = "up" -> Num(i)
      [] p = "down" -> Num(9 - i)
      [] p = "zigzag" -> Num(2 * (i % 3) + (i \div 4))
      [] p = "flat" -> Num(7)
      [] p = "square" -> Q((i - 3) * (i - 3), 2)
      [] p = "lagged" -> Num(i - 1)

\* rows on the window days in keep, in ascending day order
RowsOn(cal, w, keep, valueOf(_, _)) ==
    LET pos == SelectSeq([i \in 1..w |-> i], LAMBDA i : i \in keep)
    IN  [r \in 1..Len(pos) |->
            [f \in RowFields \cup {"day"} |->
                IF f = "day" THEN cal[pos[r]] ELSE valueOf(f, pos[r])]]

(***************************************************************************)
(* correlationMatrix and correlationMatrixDetrended applied to drawn rows  *)
(***************************************************************************)
MatrixKeys == <<"sleep_score", "breathing_disturbance_index", "readiness_score">>

Methods == {"spearman", "pearson"}

\* the days on which the second metric is missing
MissingChoices(n) == { {}, {1}, {2, n}, {1, 3, n} }

\* the days on which the first metric is present: at most two are missing
AlmostAll(n) == {S \in SUBSET (1..n) : Cardinality(S) >= n - 2}

MatrixInit ==
    /\ \E n \in (MinPoints - 1)..MaxRows, cal \in LeapCalendar, method \in Methods :
         \E present \in AlmostAll(n), missing \in MissingChoices(n) :
           \E pa \in {"zigzag", "up"}, pb \in {"square", "down"}, gap \in {Null, Undefined} :
             LET valueOf(f, i) ==
                     CASE f = "sleep_score" ->
                              IF i \in present THEN Pattern(pa, i) ELSE Undefined
                       [] f = "breathing_disturbance_index" ->
                              IF i \in missing THEN gap ELSE Pattern(pb, i)
                       [] f = "readiness_score" -> Pattern("zigzag", i + 1)
                       [] OTHER -> Undefined
             IN  args = [ rows |-> RowsOn(cal, n, 1..n, valueOf),
                          keys |-> MatrixKeys, method |-> method ]
    /\ ret = NotCalled
    /\ input = NotCalled
    /\ result = NotCalled
    /\ ModuleLoaded

CallCorrelationMatrix ==
    /\ ret = NotCalled
    /\ ret' = [fn |-> "correlationMatrix",
               value |-> correlationMatrix(args.rows, args.keys, args.method)]
    /\ UNCHANGED <<args, input, result>>
    /\ UNCHANGED module

CallCorrelationMatrixDetrended ==
    /\ ret = NotCalled
    /\ ret' = [fn |-> "correlationMatrixDetrended",
               value |-> correlationMatrixDetrended(args.rows, args.keys, args.method)]
    /\ UNCHANGED <<args, input, result>>
    /\ UNCHANGED module

MatrixNext == CallCorrelationMatrix \/ CallCorrelationMatrixDetrended

SpecMatrix == MatrixInit /\ [][MatrixNext]_vars

MatrixCalled == Called("correlationMatrix") \/ Called("correlationMatrixDetrended")

\* the rows in which both metrics are present and finite
BothPresent(rows, ki, kj) ==
    {r \in 1..Len(rows) : isNumber(rows[r][ki]) /\ isNumber(rows[r][kj])}

\* C4: counts[i][j] is the number of rows with both metrics present and
\* finite, and matrix[i][j] is null whenever counts[i][j] < 5.
C4_PairwiseComplete ==
    MatrixCalled =>
        \A i, j \in 1..Len(args.keys) :
            /\ ret.value.counts[i][j]
                 = Cardinality(BothPresent(args.rows, args.keys[i], args.keys[j]))
            /\ ret.value.counts[i][j] < 5 => ret.value.matrix[i][j] = Null
            /\ ret.value.matrix[i][j] # Null => InUnitRange(ret.value.matrix[i][j])

C4_Witness ==
    /\ MatrixCalled
    /\ ret.value.counts[1][2] = 4 /\ ret.value.matrix[1][2] = Null
    /\ ret.value.counts[1][1] = 5 /\ ret.value.matrix[1][1] # Null
    /\ ret.value.counts[2][3] = 5 /\ ret.value.matrix[2][3] # Null

\* C5: both correlation matrices are symmetric, values and counts.
C5_Symmetric ==
    MatrixCalled =>
        \A i, j \in 1..Len(args.keys) :
            /\ ret.value.matrix[i][j] = ret.value.matrix[j][i]
            /\ ret.value.counts[i][j] = ret.value.counts[j][i]

C5_Witness ==
    /\ Called("correlationMatrixDetrended")
    /\ ret.value.matrix[1][2] # Null
    /\ BigCmp(ret.value.matrix[1][2].n, ret.value.matrix[1][2].d) < 0
    /\ ret.value.matrix[1][2].sgn = -1
    /\ ret.value.counts[1][2] < ret.value.counts[2][2]

(***************************************************************************)
(* computeLagAnalysis applied to drawn rows, with gaps in the day sequence *)
(***************************************************************************)
AtMostOne(w) == {S \in SUBSET (1..w) : Cardinality(S) <= 1}

LagInit ==
    /\ \E cal \in Calendars, w \in MinPoints..MaxWindow, maxLag \in 0..MaxLagDays,
          method \in Methods :
         \E gone \in AtMostOne(w), px \in {"up", "zigzag"},
            py \in {"lagged", "zigzag", "flat"}, ymiss \in {{}, {2, w}} :
             LET valueOf(f, i) ==
                     CASE f = "activity_score" -> Pattern(px, i)
                       [] f = "readiness_score" ->
                              IF i \in ymiss THEN Undefined ELSE Pattern(py, i)
                       [] OTHER -> Undefined
             IN  args = [ rows |-> RowsOn(cal, w, (1..w) \ gone, valueOf),
                          xKey |-> "activity_score", yKey |-> "readiness_score",
                          maxLag |-> maxLag, method |-> method, cal |-> cal ]
    /\ ret = NotCalled
    /\ input = NotCalled
    /\ result = NotCalled
    /\ ModuleLoaded

CallComputeLagAnalysis ==
    /\ ret = NotCalled
    /\ ret' = [fn |-> "computeLagAnalysis",
               value |-> computeLagAnalysis(args.rows, args.xKey, args.yKey, args.maxLag,
                                            args.method, "lag_activity_readiness")]
    /\ UNCHANGED <<args, input, result>>
    /\ UNCHANGED module

LagNext == CallComputeLagAnalysis

SpecLag == LagInit /\ [][LagNext]_vars

\* |a| <= |b| for two correlation values
AbsLeq(a, b) == BigCmp(BigMul(a.n, b.d), BigMul(b.n, a.d)) <= 0

\* e is the entry computeLagAnalysis must report among lags
IsBest(lags, e) ==
    /\ lags[e].r # Null
    /\ \A j \in DOMAIN lags :
          lags[j].r # Null =>
              /\ AbsLeq(lags[j].r, lags[e].r)
              /\ AbsLeq(lags[e].r, lags[j].r) => lags[j].lag <= lags[e].lag

\* C1: best_lag / best_r are the entry with the largest |r| among the entries
\* with r not null, the largest lag among equals; both are null when every
\* entry has r = null.
C1_BestLag ==
    Called("computeLagAnalysis") =>
        LET a == ret.value
        IN  IF \A i \in DOMAIN a.lags : a.lags[i].r = Null
            THEN a.best_lag = Null /\ a.best_r = Null
            ELSE \E e \in DOMAIN a.lags :
                    /\ IsBest(a.lags, e)
                    /\ a.best_lag = Num(a.lags[e].lag)
                    /\ a.best_r = a.lags[e].r

C1_Witness ==
    /\ Called("computeLagAnalysis")
    /\ \E i, j, m, z \in DOMAIN ret.value.lags :
          LET l == ret.value.lags
          IN  /\ i < j /\ l[i].r # Null /\ l[j].r # Null /\ l[m].r # Null
              /\ l[z].r = Null
              /\ AbsLeq(l[i].r, l[j].r) /\ AbsLeq(l[j].r, l[i].r)
              /\ ~AbsLeq(l[i].r, l[m].r)
              /\ ret.value.best_lag = Num(l[j].lag)

\* the position of a day in the written-out calendar
Pos(cal, day) == CHOOSE p \in DOMAIN cal : cal[p] = day

\* the rows D with x finite for which a row of calendar day D + L has y finite
PairsAtLag(rows, cal, xKey, yKey, L) ==
    {i \in 1..Len(rows) :
        /\ isNumber(rows[i][xKey])
        /\ \E j \in 1..Len(rows) :
              /\ Pos(cal, rows[j].day) = Pos(cal, rows[i].day) + L
              /\ isNumber(rows[j][yKey])}

\* C3: one entry per lag from -maxLag to +maxLag in ascending order; n counts
\* the rows D with x finite whose calendar day D + L has a row with y finite.
C3_LagEntries ==
    Called("computeLagAnalysis") =>
        LET l == ret.value.lags
        IN  /\ Len(l) = 2 * args.maxLag + 1
            /\ \A i \in DOMAIN l :
                  /\ l[i].lag = i - 1 - args.maxLag
                  /\ l[i].n = Cardinality(PairsAtLag(args.rows, args.cal, args.xKey,
                                                     args.yKey, l[i].lag))

C3_Witness ==
    /\ Called("computeLagAnalysis")
    /\ \E i \in 1..(Len(args.rows) - 1) :
          /\ args.rows[i + 1].day # addDays(args.rows[i].day, 1)
    /\ args.rows[1].day[2] # args.rows[Len(args.rows)].day[2]
    /\ \E i \in DOMAIN ret.value.lags :
          /\ ret.value.lags[i].lag = 1
          /\ ret.value.lags[i].n >= 5
          /\ ret.value.lags[i].n < Len(args.rows) - 1
          /\ ret.value.lags[i].r # Null

(***************************************************************************)
(* buildDashboards on a run of consecutive days: readiness follows         *)
(* activity by one day                                                     *)
(***************************************************************************)
MaxRun == 7       \* longest run of consecutive days

EmptyInput(method, maxLagDays) ==
    [ sleep |-> <<>>, activity |-> <<>>, readiness |-> <<>>, stress |-> <<>>,
      resilience |-> <<>>, spo2 |-> <<>>, cardioAge |-> <<>>, vo2Max |-> <<>>,
      workouts |-> <<>>, sleepDetailed |-> <<>>,
      correlationMethod |-> method, maxLagDays |-> maxLagDays ]

\* strictly increasing activity scores
RunScore(shape, i) ==
    CASE shape = "linear" -> Num(i)
      [] shape = "convex" -> Num(i * i + 2)
      [] shape = "steps" -> Num(3 * i + (i % 2))

\* readiness on the first day of the run, which has no day before it
FirstReadiness == {Num(0), Num(100), Undefined}

RunInit ==
    /\ \E cal \in Calendars, n \in MinPoints..MaxRun, shape \in {"linear", "convex", "steps"},
          first \in FirstReadiness, method \in {"spearman"} :
         LET activity == [i \in 1..n |->
                            [ day |-> cal[i], score |-> RunScore(shape, i), steps |-> Num(1000),
                              total_calories |-> Num(2000), active_calories |-> Num(500) ]]
             readiness == [i \in 1..n |->
                            [ day |-> cal[i],
                              score |-> IF i = 1 THEN first ELSE RunScore(shape, i - 1) ]]
         IN  input = [EmptyInput(method, 2) EXCEPT !.activity = activity,
                                                   !.readiness = readiness]
    /\ result = NotCalled
    /\ args = NotCalled
    /\ ret = NotCalled
    /\ ModuleLoaded

BuildDashboards ==
    /\ result = NotCalled
    /\ result' = buildDashboards(input)
    /\ UNCHANGED <<input, args, ret>>
    /\ UNCHANGED module

RunNext == BuildDashboards

SpecRun == RunInit /\ [][RunNext]_vars

Built == result # NotCalled

LagAnalysisOf(id) ==
    result.lag_analyses[CHOOSE i \in DOMAIN result.lag_analyses :
                            result.lag_analyses[i].id = id]

\* C2 as stated: with method spearman and maxLagDays = 2, best_lag = 1 for
\* every run of N >= 6 days.
C2_Original ==
    (Built /\ input.correlationMethod = "spearman" /\ Len(input.activity) >= 6) =>
        LagAnalysisOf("lag_activity_readiness").best_lag = Num(1)

\* C2 amended: with method spearman and maxLagDays = 2, best_lag = 1 for a
\* run of exactly 6 days.
C2_RunOfSix ==
    (Built /\ input.correlationMethod = "spearman" /\ Len(input.activity) = 6) =>
        LagAnalysisOf("lag_activity_readiness").best_lag = Num(1)

C2_Witness ==
    /\ Built /\ input.correlationMethod = "spearman" /\ Len(input.activity) = 6
    /\ input.activity[1].day = <<2024, 2, 26>>
    /\ input.readiness[1].score = Num(0)
    /\ LagAnalysisOf("lag_activity_readiness").best_lag = Num(1)
    /\ LagAnalysisOf("lag_activity_readiness").best_r = One

(***************************************************************************)
(* The caller: records are fetched per category, then buildDashboards runs *)
(***************************************************************************)
MaxRecords == 2   \* most records fetched before the dashboards are built

\* two consecutive days across the end of February
BuildDays == { <<2024, 2, 29>>, <<2024, 3, 1>> }

Categories ==
    { "sleep", "activity", "readiness", "stress", "resilience", "spo2", "cardioAge",
      "vo2Max", "workouts", "sleepDetailed" }

TotalRecords(in) ==
    Len(in.sleep) + Len(in.activity) + Len(in.readiness) + Len(in.stress)
        + Len(in.resilience) + Len(in.spo2) + Len(in.cardioAge) + Len(in.vo2Max)
        + Len(in.workouts) + Len(in.sleepDetailed)

Spo2Records(day) ==
    { [day |-> day, spo2_percentage |-> [average |-> Q(193, 2)],
       breathing_disturbance_index |-> Num(4)],
      [day |-> day, spo2_percentage |-> Null, breathing_disturbance_index |-> Null] }

SleepRecords(day) ==
    { [ day |-> day, total_sleep_duration |-> Num(27000), deep_sleep_duration |-> Num(5400),
        rem_sleep_duration |-> Num(6750), light_sleep_duration |-> Num(14850),
        awake_time |-> Num(1800), efficiency |-> Num(90), average_heart_rate |-> Num(55),
        average_hrv |-> Num(45), temperature_delta |-> Q(-1, 10),
        respiratory_rate |-> Num(15), bedtime_start |-> Iso(23, 30, 120),
        bedtime_end |-> Iso(7, 15, 120) ],
      [ day |-> day, total_sleep_duration |-> Num(0), deep_sleep_duration |-> Num(0),
        rem_sleep_duration |-> Num(0), light_sleep_duration |-> Num(0),
        awake_time |-> Undefined, efficiency |-> Num(0), average_heart_rate |-> Null,
        average_hrv |-> Null, temperature_delta |-> Null, respiratory_rate |-> Null,
        bedtime_start |-> Iso(1, 10, -300), bedtime_end |-> Iso(1, 40, -300) ] }

\* the records the upstream may return for a category and a day
RecordsOf(cat, day) ==
    CASE cat = "sleep" -> { [day |-> day, score |-> Num(82)] }
      [] cat = "activity" ->
            { [day |-> day, score |-> Num(75), steps |-> Num(8000),
               total_calories |-> Num(2400), active_calories |-> Num(500)] }
      [] cat = "readiness" -> { [day |-> day, score |-> Num(70)] }
      [] cat = "stress" ->
            { [day |-> day, stress_high |-> Num(3600), recovery_high |-> Num(5400)] }
      [] cat = "resilience" -> { [day |-> day, level |-> Str("solid")] }
      [] cat = "spo2" -> Spo2Records(day)
      [] cat = "cardioAge" -> { [day |-> day, cardiovascular_age |-> Num(35)] }
      [] cat = "vo2Max" -> { [day |-> day, vo2_max |-> Num(42)] }
      [] cat = "workouts" ->
            { [day |-> day, intensity |-> i] : i \in {"easy", "moderate", "hard"} }
      [] cat = "sleepDetailed" -> SleepRecords(day)

BuildInit ==
    /\ input = EmptyInput("spearman", 1)
    /\ result = NotCalled
    /\ args = NotCalled
    /\ ret = NotCalled
    /\ ModuleLoaded

Fetch(cat) ==
    /\ result = NotCalled
    /\ TotalRecords(input) < MaxRecords
    /\ \E day \in BuildDays : \E rec \in RecordsOf(cat, day) :
          input' = [input EXCEPT ![cat] = Append(@, rec)]
    /\ UNCHANGED <<result, args, ret>>
    /\ UNCHANGED module

FetchSleep == Fetch("sleep")
FetchActivity == Fetch("activity")
FetchReadiness == Fetch("readiness")
FetchStress == Fetch("stress")
FetchResilience == Fetch("resilience")
FetchSpo2 == Fetch("spo2")
FetchCardioAge == Fetch("cardioAge")
FetchVo2Max == Fetch("vo2Max")
FetchWorkouts == Fetch("workouts")
FetchSleepDetailed == Fetch("sleepDetailed")

BuildNext ==
    \/ FetchSleep \/ FetchActivity \/ FetchReadiness \/ FetchStress \/ FetchResilience
    \/ FetchSpo2 \/ FetchCardioAge \/ FetchVo2Max \/ FetchWorkouts \/ FetchSleepDetailed
    \/ BuildDashboards

SpecBuild == BuildInit /\ [][BuildNext]_vars

\* the days on which a category has a record
DaysOf(cat) == {input[cat][i].day : i \in 1..Len(input[cat])}

AllDays == UNION {DaysOf(cat) : cat \in Categories}

Earlier(a, b) ==
    \/ a[1] < b[1]
    \/ a[1] = b[1] /\ a[2] < b[2]
    \/ a[1] = b[1] /\ a[2] = b[2] /\ a[3] < b[3]

\* C8: daily_rows holds exactly one row per day that occurs in some input
\* category and no other row, in strictly ascending day order, and
\* summary.days is the number of distinct days.
C8_OneRowPerDay ==
    Built =>
        LET rows == result.daily_rows
        IN  /\ {rows[i].day : i \in 1..Len(rows)} = AllDays
            /\ Len(rows) = Cardinality(AllDays)
            /\ \A i, j \in 1..Len(rows) : i < j => Earlier(rows[i].day, rows[j].day)
            /\ result.summary.days = Cardinality(AllDays)

C8_Witness ==
    /\ Built
    /\ Len(input.sleep) = 1 /\ input.sleep[1].day = <<2024, 3, 1>>
    /\ Len(input.workouts) = 1 /\ input.workouts[1].day = <<2024, 2, 29>>
    /\ Len(result.daily_rows) = 2
    /\ result.daily_rows[1].day = <<2024, 2, 29>>
    /\ result.daily_rows[1].sleep_score = Undefined
    /\ result.daily_rows[2].sleep_score = Num(82)

\* the row fields a category fills, with the fields derived from them
FieldsOf(cat) ==
    CASE cat = "sleep" -> {"sleep_score"}
      [] cat = "activity" -> {"activity_score", "steps", "total_calories", "active_calories"}
      [] cat = "readiness" -> {"readiness_score"}
      [] cat = "stress" -> {"stress_high_min", "recovery_high_min"}
      [] cat = "resilience" -> {"resilience_level"}
      [] cat = "spo2" -> {"spo2_avg", "breathing_disturbance_index"}
      [] cat = "cardioAge" -> {"cardiovascular_age"}
      [] cat = "vo2Max" -> {"vo2_max"}
      [] cat = "workouts" -> {"workout_count", "workout_intensity_score"}
      [] cat = "sleepDetailed" ->
            { "sleep_duration_h", "sleep_efficiency", "avg_hr", "avg_hrv",
              "temperature_delta", "respiratory_rate", "deep_pct", "rem_pct",
              "light_pct", "awake_pct", "bedtime_start", "bedtime_end",
              "bedtime_clock_min", "wake_clock_min", "midsleep_clock_min",
              "bedtime_deviation_min" }

CategoriesOn(day) == {cat \in Categories : day \in DaysOf(cat)}

RowsOf(day) == {i \in 1..Len(result.daily_rows) : result.daily_rows[i].day = day}

\* C9: a day that occurs in one category only has a row, and in it every
\* field of another category is absent (undefined or null), never 0.
C9_SparseDay ==
    Built =>
        \A day \in AllDays : \A cat \in Categories :
            CategoriesOn(day) = {cat} =>
                /\ Cardinality(RowsOf(day)) = 1
                /\ \A i \in RowsOf(day) : \A f \in RowFields \ FieldsOf(cat) :
                      result.daily_rows[i][f] \in {Undefined, Null}

C9_Witness ==
    /\ Built
    /\ CategoriesOn(<<2024, 2, 29>>) = {"stress"}
    /\ CategoriesOn(<<2024, 3, 1>>) = {"sleepDetailed"}
    /\ result.daily_rows[1].stress_high_min = Num(60)
    /\ result.daily_rows[1].sleep_score = Undefined
    /\ result.daily_rows[2].bedtime_clock_min = Num(21 * 60 + 30)
    /\ result.daily_rows[2].stress_high_min = Undefined

\* easy = 1, moderate = 2, hard = 3
WeightOf(intensity) ==
    CASE intensity = "easy" -> 1 [] intensity = "moderate" -> 2 [] intensity = "hard" -> 3

WorkoutsOn(day) == {i \in 1..Len(input.workouts) : input.workouts[i].day = day}

RECURSIVE SumWeights(_)
SumWeights(S) ==
    IF S = {} THEN 0
    ELSE LET i == CHOOSE i \in S : TRUE
         IN  WeightOf(input.workouts[i].intensity) + SumWeights(S \ {i})

\* C10: on a day with workouts, workout_count is their number and
\* workout_intensity_score the sum of their weights, between count and
\* 3 * count; on a day without workouts both fields are absent.
C10_WorkoutAggregate ==
    Built =>
        \A r \in 1..Len(result.daily_rows) :
            LET row == result.daily_rows[r]
                ws == WorkoutsOn(row.day)
            IN  IF ws = {}
                THEN row.workout_count = Undefined /\ row.workout_intensity_score = Undefined
                ELSE /\ row.workout_count = Num(Cardinality(ws))
                     /\ row.workout_intensity_score = Num(SumWeights(ws))
                     /\ Cardinality(ws) <= row.workout_intensity_score.n
                     /\ row.workout_intensity_score.n <= 3 * Cardinality(ws)

C10_Witness ==
    /\ Built
    /\ Len(input.workouts) = 2
    /\ input.workouts[1].day = input.workouts[2].day
    /\ input.workouts[1].intensity = "hard" /\ input.workouts[2].intensity = "easy"
    /\ Len(result.daily_rows) = 1
    /\ result.daily_rows[1].workout_count = Num(2)
    /\ result.daily_rows[1].workout_intensity_score = Num(4)

(***************************************************************************)
(* buildDashboards on sparse input: no record or a single one, either      *)
(* method, every maxLagDays                                                *)
(***************************************************************************)
SparseInit ==
    /\ \E method \in Methods, maxLagDays \in 0..MaxLagDays :
         \/ input = EmptyInput(method, maxLagDays)
         \/ \E cat \in Categories, day \in BuildDays : \E rec \in RecordsOf(cat, day) :
               input = [EmptyInput(method, maxLagDays) EXCEPT ![cat] = <<rec>>]
    /\ result = NotCalled
    /\ args = NotCalled
    /\ ret = NotCalled
    /\ ModuleLoaded

SparseNext == BuildDashboards

SpecSparse == SparseInit /\ [][SparseNext]_vars

AllCellsEmpty(m) ==
    /\ m.labels = metricKeys
    /\ Len(m.matrix) = 18 /\ Len(m.counts) = 18
    /\ \A i \in 1..18 :
          /\ Len(m.matrix[i]) = 18 /\ Len(m.counts[i]) = 18
          /\ \A j \in 1..18 : m.matrix[i][j] = Null /\ m.counts[i][j] = 0

\* C11: with all ten category arrays empty buildDashboards returns: 0 days,
\* social jetlag null, no rows, two 18x18 matrices of null cells and zero
\* counts, four lag analyses with r = null, n = 0 in every entry and null
\* best_lag / best_r, and the five cards.
C11_EmptyInput ==
    (Built /\ TotalRecords(input) = 0) =>
        /\ result.fn = "buildDashboards"
        /\ result.summary.days = 0
        /\ result.summary.social_jetlag_min = Null
        /\ result.daily_rows = <<>>
        /\ AllCellsEmpty(result.correlation)
        /\ AllCellsEmpty(result.correlation_detrended)
        /\ result.correlation.method = input.correlationMethod
        /\ Len(result.lag_analyses) = 4
        /\ \A a \in 1..4 :
              /\ Len(result.lag_analyses[a].lags) = 2 * input.maxLagDays + 1
              /\ \A l \in 1..Len(result.lag_analyses[a].lags) :
                    /\ result.lag_analyses[a].lags[l].r = Null
                    /\ result.lag_analyses[a].lags[l].n = 0
              /\ result.lag_analyses[a].best_lag = Null
              /\ result.lag_analyses[a].best_r = Null
        /\ Len(result.cards) = 5

C11_Witness ==
    /\ Built /\ TotalRecords(input) = 0
    /\ input.correlationMethod = "pearson" /\ input.maxLagDays = 2
    /\ Len(result.lag_analyses[1].lags) = 5
    /\ result.lag_analyses[1].lags[5].lag = 2
    /\ Len(result.cards) = 5

(***************************************************************************)
(* Several calls of buildDashboards in one process.  A result refers to    *)
(* the module-level array by reference: its granularity_notes field is the *)
(* tag "GRANULARITY_NOTES" and reads as the array's current content.       *)
(***************************************************************************)
MaxCalls == 3     \* most calls of buildDashboards in one behaviour
MaxPushes == 1    \* most elements callers push onto a notes array

\* mutant: every call appends a note to the module-level array
notesAfterCallPush(notes) == Append(notes, "generated")

\* the module-level array after a call: buildDashboards only reads it
notesAfterCall(notes) == notes

\* what a reader of the result sees, the notes array read through its reference
Seen(r, notes) == [r EXCEPT !.granularity_notes = notes]

OneRecord(method, cat, day) ==
    [EmptyInput(method, 1) EXCEPT ![cat] = <<CHOOSE rec \in RecordsOf(cat, day) : TRUE>>]

CallInputs ==
    {EmptyInput(method, 1) : method \in Methods}
        \cup {OneRecord(method, cat, <<2024, 2, 29>>) :
                 method \in Methods, cat \in {"sleep", "stress", "vo2Max"}}

ShareInputs == {EmptyInput("spearman", 1), OneRecord("spearman", "sleep", <<2024, 2, 29>>)}

CallsInit ==
    /\ input = NotCalled
    /\ result = NotCalled
    /\ args = NotCalled
    /\ ret = NotCalled
    /\ ModuleLoaded

\* one call; the caller keeps the result
Call(inputs) ==
    /\ Len(returned) < MaxCalls
    /\ \E in \in inputs :
          /\ input' = in
          /\ result' = buildDashboards(in)
          /\ GRANULARITY_NOTES' = notesAfterCall(GRANULARITY_NOTES)
          /\ returned' = Append(returned,
                [ input |-> in, result |-> result', touched |-> FALSE,
                  asReturned |-> Seen(result', GRANULARITY_NOTES') ])
    /\ UNCHANGED <<args, ret, calls, cookies, clock>>

CallBuildDashboards == Call(CallInputs)

CallsNext == CallBuildDashboards

SpecCalls == CallsInit /\ [][CallsNext]_vars

CallShared == Call(ShareInputs)

\* a caller runs result.granularity_notes.push(...) on the result it holds:
\* the field refers to the module-level array, so that array grows
MutateNotes ==
    /\ Len(GRANULARITY_NOTES) < Len(InitialNotes) + MaxPushes
    /\ \E k \in 1..Len(returned) :
          /\ returned[k].result.granularity_notes = "GRANULARITY_NOTES"
          /\ GRANULARITY_NOTES' = Append(GRANULARITY_NOTES, "pushed by a caller")
          /\ returned' = [returned EXCEPT ![k].touched = TRUE]
    /\ UNCHANGED <<args, ret, input, result, calls, cookies, clock>>

\* a caller empties result.daily_rows of the result it holds: an array
\* allocated by that call
MutateRows ==
    /\ \E k \in 1..Len(returned) :
          /\ returned[k].result.daily_rows # <<>>
          /\ returned' = [returned EXCEPT ![k].touched = TRUE,
                                          ![k].result.daily_rows = <<>>]
    /\ UNCHANGED <<args, ret, input, result, GRANULARITY_NOTES, calls, cookies, clock>>

ShareNext == CallShared \/ MutateNotes \/ MutateRows

SpecShare == CallsInit /\ [][ShareNext]_vars

\* C13: mutating one returned result changes no other call's result: a
\* result its holder has not touched still reads as it was returned, and a
\* later call with the same input returns what the earlier call returned.
C13_Isolated ==
    /\ \A k \in 1..Len(returned) :
          ~returned[k].touched =>
              Seen(returned[k].result, GRANULARITY_NOTES) = returned[k].asReturned
    /\ \A i, j \in 1..Len(returned) :
          returned[i].input = returned[j].input =>
              returned[i].asReturned = returned[j].asReturned

\* what does hold: everything but granularity_notes is isolated
C13_IsolatedButNotes ==
    \A k \in 1..Len(returned) :
        ~returned[k].touched =>
            Seen(returned[k].result, InitialNotes)
                = Seen(returned[k].asReturned, InitialNotes)

(***************************************************************************)
(* Series decoding.  A string is the sequence of its characters.           *)
(***************************************************************************)
MaxRawLen == 4    \* longest raw series string

IsSpace(c) == c = " "

\* String.prototype.trim
RECURSIVE trimStart(_)
trimStart(str) ==
    IF str # <<>> /\ IsSpace(Head(str)) THEN trimStart(Tail(str)) ELSE str

RECURSIVE trimEnd(_)
trimEnd(str) ==
    IF str # <<>> /\ IsSpace(str[Len(str)])
    THEN trimEnd(SubSeq(str, 1, Len(str) - 1)) ELSE str

trim(str) == trimEnd(trimStart(str))

\* str.split(","): the pieces between commas, empty pieces included
RECURSIVE splitComma(_, _, _)
splitComma(str, i, piece) ==
    IF i > Len(str) THEN <<piece>>
    ELSE IF str[i] = "," THEN <<piece>> \o splitComma(str, i + 1, <<>>)
    ELSE splitComma(str, i + 1, Append(piece, str[i]))

\* str.split(/\s+/): the pieces between runs of whitespace
RECURSIVE splitSpaces(_, _, _)
splitSpaces(str, i, piece) ==
    IF i > Len(str) THEN <<piece>>
    ELSE IF IsSpace(str[i])
         THEN IF i > 1 /\ IsSpace(str[i - 1]) THEN splitSpaces(str, i + 1, piece)
              ELSE <<piece>> \o splitSpaces(str, i + 1, <<>>)
    ELSE splitSpaces(str, i + 1, Append(piece, str[i]))

\* .map((v) => v.trim()).filter(Boolean)
trimmedNonEmpty(pieces) ==
    SelectSeq([i \in 1..Len(pieces) |-> trim(pieces[i])], LAMBDA v : v # <<>>)

includes(str, c) == \E i \in 1..Len(str) : str[i] = c

hasSpace(str) == \E i \in 1..Len(str) : IsSpace(str[i])

\* the steps of tokenizeSeries after const trimmed = raw.trim()
tokensOfTrimmed(trimmed) ==
    IF Len(trimmed) = 0 THEN <<>>
    ELSE IF includes(trimmed, ",") THEN trimmedNonEmpty(splitComma(trimmed, 1, <<>>))
    ELSE IF hasSpace(trimmed) THEN trimmedNonEmpty(splitSpaces(trimmed, 1, <<>>))
    ELSE [i \in 1..Len(trimmed) |-> <<trimmed[i]>>]

\* mutant: the whitespace test comes before the comma test
tokenizeSpacesFirst(raw) ==
    IF Len(trim(raw)) = 0 THEN <<>>
    ELSE IF hasSpace(trim(raw)) THEN trimmedNonEmpty(splitSpaces(trim(raw), 1, <<>>))
    ELSE IF includes(trim(raw), ",") THEN trimmedNonEmpty(splitComma(trim(raw), 1, <<>>))
    ELSE [i \in 1..Len(trim(raw)) |-> <<trim(raw)[i]>>]

tokenizeSeries(raw) == tokensOfTrimmed(trim(raw))

RawChars == {"1", "2", ",", " "}

RawStrings == UNION {[1..n -> RawChars] : n \in 0..MaxRawLen}

TokenizeInit ==
    /\ args \in {[raw |-> str] : str \in RawStrings}
    /\ ret = NotCalled
    /\ input = NotCalled
    /\ result = NotCalled
    /\ ModuleLoaded

CallTokenizeSeries ==
    /\ ret = NotCalled
    /\ ret' = [fn |-> "tokenizeSeries", value |-> tokenizeSeries(args.raw)]
    /\ UNCHANGED <<args, input, result>>
    /\ UNCHANGED module

TokenizeNext == CallTokenizeSeries

SpecTokenize == TokenizeInit /\ [][TokenizeNext]_vars

\* the maximal runs of str that hold no character of seps, as <<first, last>>
RunsOf(str, seps) ==
    { run \in (1..Len(str)) \X (1..Len(str)) :
        /\ run[1] <= run[2]
        /\ \A i \in run[1]..run[2] : str[i] \notin seps
        /\ run[1] = 1 \/ str[run[1] - 1] \in seps
        /\ run[2] = Len(str) \/ str[run[2] + 1] \in seps }

\* a run without its leading and trailing blanks; <<1, 0>> when all blank
Inner(str, run) ==
    LET solid == {i \in run[1]..run[2] : ~IsSpace(str[i])}
    IN  IF solid = {} THEN <<1, 0>>
        ELSE << CHOOSE i \in solid : \A j \in solid : i <= j,
                CHOOSE i \in solid : \A j \in solid : j <= i >>

\* the runs between separators, blanks stripped, empty ones dropped, in order
TokensBetween(str, seps) ==
    LET kept == {Inner(str, run) : run \in RunsOf(str, seps)} \ {<<1, 0>>}
        nth(k) == CHOOSE r \in kept : Cardinality({q \in kept : q[1] < r[1]}) = k - 1
    IN  [k \in 1..Cardinality(kept) |-> SubSeq(str, nth(k)[1], nth(k)[2])]

\* C15 as stated: a raw string with a comma is split on commas only;
\* otherwise one with whitespace is split on whitespace; otherwise every
\* character is a token.
C15_Original ==
    Called("tokenizeSeries") =>
        ret.value =
            IF includes(args.raw, ",") THEN TokensBetween(args.raw, {","})
            ELSE IF hasSpace(args.raw) THEN TokensBetween(args.raw, {" "})
            ELSE [i \in 1..Len(args.raw) |-> <<args.raw[i]>>]

\* the raw string without its leading and trailing blanks
Stripped(str) == SubSeq(str, Inner(str, <<1, Len(str)>>)[1], Inner(str, <<1, Len(str)>>)[2])

\* C15 amended: the three tiers apply to the raw string after its leading
\* and trailing whitespace is removed.
C15_ThreeTiers ==
    Called("tokenizeSeries") =>
        ret.value =
            IF includes(args.raw, ",") THEN TokensBetween(args.raw, {","})
            ELSE IF hasSpace(Stripped(args.raw)) THEN TokensBetween(args.raw, {" "})
            ELSE [i \in 1..Len(Stripped(args.raw)) |-> <<Stripped(args.raw)[i]>>]

C15_Witness ==
    /\ Called("tokenizeSeries")
    /\ args.raw = <<"1", " ", ",", "2">>
    /\ ret.value = << <<"1">>, <<"2">> >>

(***************************************************************************)
(* decodeDiscreteSeries and expandNumericSeries.  An ISO timestamp is its  *)
(* calendar day, wall-clock time and UTC offset in minutes.                *)
(***************************************************************************)
MaxItems == 3     \* longest items array

Text(chars) == [k |-> "string", chars |-> chars]

IsoAt(day, hh, mm, ss, off) ==
    [k |-> "string", day |-> day, hh |-> hh, mm |-> mm, ss |-> ss, off |-> off]

\* !v for undefined, null and strings
not(v) == v.k \in {"undefined", "null"} \/ v = Text(<<>>)

SLEEP_STAGE_LABELS ==
    (<<"1">> :> <<"d", "e", "e", "p">>) @@ (<<"2">> :> <<"l", "i", "g", "h", "t">>)
        @@ (<<"3">> :> <<"r", "e", "m">>) @@ (<<"4">> :> <<"a", "w", "a", "k", "e">>)

MOVEMENT_LABELS ==
    (<<"0">> :> <<"s", "t", "i", "l", "l">>) @@ (<<"1">> :> <<"l", "o", "w">>)
        @@ (<<"2">> :> <<"m", "e", "d", "i", "u", "m">>) @@ (<<"3">> :> <<"h", "i", "g", "h">>)
        @@ (<<"4">> :> <<"v", "e", "r", "y", "_", "h", "i", "g", "h">>)

\* toISOString of the UTC day and second of day
utcIso(day, secs) ==
    IsoAt(day, secs \div 3600, (secs % 3600) \div 60, secs % 60, 0)

\* new Date(startISO), then the seconds field alone is offset
secondsOfDay(iso) == iso.hh * 3600 + iso.mm * 60 + iso.ss - iso.off * 60

\* mutant: the seconds are offset without carrying into the day
addSecondsIsoNoCarry(startISO, seconds) ==
    utcIso(addDays(startISO.day, secondsOfDay(startISO) \div 86400),
           ((secondsOfDay(startISO) % 86400) + seconds) % 86400)

\* d.setUTCSeconds(d.getUTCSeconds() + seconds); d.toISOString()
addSecondsIso(startISO, seconds) ==
    utcIso(addDays(startISO.day, (secondsOfDay(startISO) + seconds) \div 86400),
           (secondsOfDay(startISO) + seconds) % 86400)

\* labels[code] ?? `unknown(${code})`
labelOf(labels, code) ==
    IF code \in DOMAIN labels THEN labels[code]
    ELSE <<"u", "n", "k", "n", "o", "w", "n", "(">> \o code \o <<")">>

RECURSIVE discretePoints(_, _, _, _, _)
discretePoints(tokens, startISO, intervalSec, labels, idx) ==
    IF idx >= Len(tokens) THEN <<>>
    ELSE << [ timestamp |-> addSecondsIso(startISO, idx * intervalSec),
              code |-> Text(tokens[idx + 1]),
              label |-> Text(labelOf(labels, tokens[idx + 1])) ] >>
         \o discretePoints(tokens, startISO, intervalSec, labels, idx + 1)

decodeTokens(raw, tokens, startISO, intervalSec, labels) ==
    IF Len(tokens) = 0 THEN Null
    ELSE [ raw |-> raw, interval_sec |-> intervalSec,
           points |-> discretePoints(tokens, startISO, intervalSec, labels, 0) ]

decodeDiscreteSeries(raw, startISO, intervalSec, labels) ==
    IF not(raw) \/ not(startISO) THEN Null
    ELSE decodeTokens(raw, tokenizeSeries(raw.chars), startISO, intervalSec, labels)

RECURSIVE numericPoints(_, _, _, _)
numericPoints(items, startISO, intervalSec, idx) ==
    IF idx >= Len(items) THEN <<>>
    ELSE << [ timestamp |-> addSecondsIso(startISO, idx * intervalSec),
              value |-> items[idx + 1] ] >>
         \o numericPoints(items, startISO, intervalSec, idx + 1)

\* items is undefined, null or an array
expandNumericSeries(items, startISO, intervalSec) ==
    IF items \in {Undefined, Null} \/ not(startISO) THEN Null
    ELSE IF Len(items.items) = 0 THEN Null
    ELSE [ interval_sec |-> intervalSec,
           points |-> numericPoints(items.items, startISO, intervalSec, 0) ]

Items(values) == [k |-> "array", items |-> values]

StartTimes ==
    { Undefined, Null, Text(<<>>),
      IsoAt(<<2024, 1, 1>>, 0, 0, 0, 0),
      IsoAt(<<2024, 2, 29>>, 23, 59, 30, 0),
      IsoAt(<<2023, 12, 31>>, 23, 55, 0, -300),
      IsoAt(<<2024, 3, 1>>, 0, 0, 10, 120) }

Intervals == {30, 300}

LabelTables == {SLEEP_STAGE_LABELS, MOVEMENT_LABELS, <<>>}

RawInputs == {Undefined, Null} \cup {Text(str) : str \in RawStrings}

ItemValues == {Num(10), Num(11), Null}

ItemInputs ==
    {Undefined, Null} \cup {Items(v) : v \in UNION {[1..n -> ItemValues] : n \in 0..MaxItems}}

SeriesInit ==
    /\ args \in [raw : RawInputs, startISO : StartTimes, intervalSec : Intervals,
                 labels : LabelTables]
               \cup [items : ItemInputs, startISO : StartTimes, intervalSec : Intervals]
    /\ ret = NotCalled
    /\ input = NotCalled
    /\ result = NotCalled
    /\ ModuleLoaded

CallDecodeDiscreteSeries ==
    /\ ret = NotCalled
    /\ "raw" \in DOMAIN args
    /\ ret' = [fn |-> "decodeDiscreteSeries",
               value |-> decodeDiscreteSeries(args.raw, args.startISO, args.intervalSec,
                                              args.labels)]
    /\ UNCHANGED <<args, input, result>>
    /\ UNCHANGED module

CallExpandNumericSeries ==
    /\ ret = NotCalled
    /\ "items" \in DOMAIN args
    /\ ret' = [fn |-> "expandNumericSeries",
               value |-> expandNumericSeries(args.items, args.startISO, args.intervalSec)]
    /\ UNCHANGED <<args, input, result>>
    /\ UNCHANGED module

SeriesNext == CallDecodeDiscreteSeries \/ CallExpandNumericSeries

SpecSeries == SeriesInit /\ [][SeriesNext]_vars

\* days since 0000-03-01 of the proleptic Gregorian calendar
DayNumber(day) ==
    LET y == IF day[2] <= 2 THEN day[1] - 1 ELSE day[1]
        m == IF day[2] <= 2 THEN day[2] + 9 ELSE day[2] - 3
    IN  365 * y + (y \div 4) - (y \div 100) + (y \div 400) + ((153 * m + 2) \div 5) + day[3] - 1

BaseDay == <<2023, 12, 1>>

\* seconds from BaseDay 00:00:00Z to the instant a timestamp names
Instant(iso) ==
    (DayNumber(iso.day) - DayNumber(BaseDay)) * 86400
        + iso.hh * 3600 + iso.mm * 60 + iso.ss - iso.off * 60

IsUtcIso(iso) ==
    /\ iso.off = 0
    /\ iso.hh \in 0..23 /\ iso.mm \in 0..59 /\ iso.ss \in 0..59
    /\ iso.day[2] \in 1..12 /\ iso.day[3] \in 1..DaysInMonth(iso.day[1], iso.day[2])

\* the samples of the input a call was given, in input order
SamplesOf(a) ==
    IF "raw" \in DOMAIN a
    THEN IF not(a.raw) THEN <<>>
         ELSE IF includes(a.raw.chars, ",") THEN TokensBetween(a.raw.chars, {","})
         ELSE IF hasSpace(Stripped(a.raw.chars)) THEN TokensBetween(a.raw.chars, {" "})
         ELSE [i \in 1..Len(Stripped(a.raw.chars)) |-> <<Stripped(a.raw.chars)[i]>>]
    ELSE IF a.items \in {Undefined, Null} THEN <<>> ELSE a.items.items

PointAt(a, points, i) ==
    /\ IsUtcIso(points[i].timestamp)
    /\ Instant(points[i].timestamp) = Instant(a.startISO) + (i - 1) * a.intervalSec
    /\ IF "raw" \in DOMAIN a
       THEN /\ points[i].code = Text(SamplesOf(a)[i])
            /\ points[i].label =
                 IF \E c \in DOMAIN a.labels : c = SamplesOf(a)[i]
                 THEN Text(a.labels[SamplesOf(a)[i]])
                 ELSE Text(<<"u", "n", "k", "n", "o", "w", "n", "(">> \o SamplesOf(a)[i] \o <<")">>)
       ELSE points[i].value = SamplesOf(a)[i]

\* C14: decodeDiscreteSeries and expandNumericSeries return null when the
\* input or the start timestamp is absent or there is no sample; otherwise
\* one point per sample in input order, point i stamped start + i * interval
\* and, for a discrete series, labelled labels[code] or unknown(<code>).
C14_SeriesPoints ==
    (Called("decodeDiscreteSeries") \/ Called("expandNumericSeries")) =>
        IF not(args.startISO) \/ Len(SamplesOf(args)) = 0
        THEN ret.value = Null
        ELSE /\ ret.value # Null
             /\ ret.value.interval_sec = args.intervalSec
             /\ Len(ret.value.points) = Len(SamplesOf(args))
             /\ \A i \in 1..Len(SamplesOf(args)) : PointAt(args, ret.value.points, i)

C14_Witness ==
    /\ Called("decodeDiscreteSeries")
    /\ args.raw = Text(<<"1", "2", ",", "2">>)
    /\ args.labels = SLEEP_STAGE_LABELS
    /\ args.startISO = IsoAt(<<2024, 2, 29>>, 23, 59, 30, 0)
    /\ args.intervalSec = 300
    /\ Len(ret.value.points) = 2
    /\ ret.value.points[1].label = Text(<<"u", "n", "k", "n", "o", "w", "n", "(", "1", "2", ")">>)
    /\ ret.value.points[2].label = Text(<<"l", "i", "g", "h", "t">>)
    /\ ret.value.points[2].timestamp = IsoAt(<<2024, 3, 1>>, 0, 4, 30, 0)

(***************************************************************************)
(* handleJsonRpc                                                           *)
(***************************************************************************)
jsonRpcOk(id, res) == [jsonrpc |-> "2.0", id |-> id, result |-> res]

jsonRpcErr(id, code, message) ==
    [jsonrpc |-> "2.0", id |-> id, error |-> [code |-> code, message |-> message]]

isString(v) == v.k = "string"

\* a ?? b
orElse(a, b) == IF a \in {Undefined, Null} THEN b ELSE a

\* req.params?.name and req.params?.arguments
paramOf(req, field) == IF req.params \in {Undefined, Null} THEN Undefined ELSE req.params[field]

serverInfo == [name |-> "oura-mcp-server", version |-> "1.0.0"]

listedTools == <<"oura_get_daily_sleep", "oura_get_heartrate">>

\* what the awaited deps.callTool does: it resolves or it rejects
Resolves(value) == [settled |-> "fulfilled", value |-> value]

Rejects(e) == [settled |-> "rejected", reason |-> e]

\* e?.message ?? "Tool call failed"
messageOf(e) ==
    IF e \in {Undefined, Null} THEN Str("Tool call failed")
    ELSE orElse(e.message, Str("Tool call failed"))

Invocation(name, arguments, token) ==
    [dep |-> "callTool", name |-> name, arguments |-> arguments, token |-> token]

Reply(reply, invoked) == [reply |-> reply, invoked |-> invoked]

\* the tools/call branch once the name is read
toolsCall(id, name, arguments, token, outcome) ==
    IF ~isString(name) \/ name.s = ""
    THEN Reply(jsonRpcErr(id, -32602, Str("Invalid params: missing tool name")), <<>>)
    ELSE IF token = Null \/ token = Str("")
    THEN Reply(jsonRpcErr(id, -32001,
                          Str("Missing token: set Authorization header or cookie session")), <<>>)
    ELSE Reply(IF outcome.settled = "fulfilled" THEN jsonRpcOk(id, outcome.value)
               ELSE jsonRpcErr(id, -32002, messageOf(outcome.reason)),
               <<Invocation(name, arguments, token)>>)

dispatch(req, id, token, outcome) ==
    IF req.method = Str("initialize")
    THEN Reply(jsonRpcOk(id, [protocolVersion |-> "2024-11-05", serverInfo |-> serverInfo,
                              capabilities |-> [tools |-> <<>>]]), <<>>)
    ELSE IF req.method = Str("tools/list")
    THEN Reply(jsonRpcOk(id, [tools |-> listedTools]), <<>>)
    ELSE IF req.method = Str("tools/call")
    THEN toolsCall(id, paramOf(req, "name"), orElse(paramOf(req, "arguments"), <<>>),
                   token, outcome)
    ELSE Reply(jsonRpcErr(id, -32601, Str("Method not found")), <<>>)

\* mutant: the token is demanded before the method is looked at
handleJsonRpcGateAll(req, auth, outcome) ==
    IF req = Null \/ req.jsonrpc # Str("2.0") \/ ~isString(req.method)
    THEN Reply(jsonRpcErr(Null, -32600, Str("Invalid Request")), <<>>)
    ELSE IF auth.token = Null \/ auth.token = Str("")
    THEN Reply(jsonRpcErr(orElse(req.id, Null), -32001,
                          Str("Missing token: set Authorization header or cookie session")), <<>>)
    ELSE dispatch(req, orElse(req.id, Null), auth.token, outcome)

handleJsonRpc(req, auth, outcome) ==
    IF req = Null \/ req.jsonrpc # Str("2.0") \/ ~isString(req.method)
    THEN Reply(jsonRpcErr(Null, -32600, Str("Invalid Request")), <<>>)
    ELSE dispatch(req, orElse(req.id, Null), auth.token, outcome)

RequestIds == {Undefined, Null, Num(1), Str("a")}

RequestMethods ==
    {Str("initialize"), Str("tools/list"), Str("tools/call"), Str("ping"), Undefined}

ToolNames == {Undefined, Str(""), Str("oura_get_daily_sleep"), Str("no_such_tool")}

ToolArguments == {Undefined, [start_date |-> "2026-01-01"]}

RequestParams ==
    {Undefined} \cup [name : ToolNames, arguments : ToolArguments]

Requests ==
    {Null} \cup [jsonrpc : {Str("2.0"), Str("1.0")}, id : RequestIds,
                 method : RequestMethods, params : RequestParams]

Tokens == {Null, Str(""), Str("token-a")}

CallToolOutcomes ==
    { Resolves([content |-> "text"]), Rejects([message |-> Str("Invalid arguments")]),
      Rejects([message |-> Undefined]), Rejects(Undefined) }

JsonRpcInit ==
    /\ args \in [req : Requests, auth : [token : Tokens]]
    /\ ret = NotCalled
    /\ input = NotCalled
    /\ result = NotCalled
    /\ ModuleLoaded

HandleJsonRpc ==
    /\ ret = NotCalled
    /\ \E outcome \in CallToolOutcomes :
          /\ ret' = [fn |-> "handleJsonRpc",
                     value |-> handleJsonRpc(args.req, args.auth, outcome).reply]
          /\ calls' = calls \o handleJsonRpc(args.req, args.auth, outcome).invoked
    /\ UNCHANGED <<args, input, result, GRANULARITY_NOTES, returned, cookies, clock>>

JsonRpcNext == HandleJsonRpc

SpecJsonRpc == JsonRpcInit /\ [][JsonRpcNext]_vars

\* a request of type JsonRpcRequest
IsJsonRpcRequest(req) == req # Null /\ req.jsonrpc = Str("2.0") /\ isString(req.method)

NamesATool(req) ==
    /\ req.method = Str("tools/call")
    /\ req.params # Undefined
    /\ isString(req.params.name) /\ req.params.name.s # ""

IdOf(req) == IF req.id = Undefined THEN Null ELSE req.id

\* C16: only tools/call is gated by the token.  initialize and tools/list
\* succeed with the request's id whatever the token is, null included; a
\* tools/call that names a tool while the token is null is answered with
\* error -32001 and deps.callTool is not invoked.
C16_OnlyToolsCallGated ==
    (Called("handleJsonRpc") /\ IsJsonRpcRequest(args.req)) =>
        /\ args.req.method \in {Str("initialize"), Str("tools/list")} =>
              /\ "result" \in DOMAIN ret.value
              /\ ret.value.id = IdOf(args.req)
              /\ calls = <<>>
        /\ (NamesATool(args.req) /\ args.auth.token = Null) =>
              /\ "error" \in DOMAIN ret.value
              /\ ret.value.error.code = -32001
              /\ ret.value.id = IdOf(args.req)
              /\ calls = <<>>
        /\ calls # <<>> => (NamesATool(args.req) /\ args.auth.token = Str("token-a"))

C16_Witness ==
    /\ Called("handleJsonRpc")
    /\ IsJsonRpcRequest(args.req)
    /\ args.req.method = Str("tools/list")
    /\ args.req.id = Num(1)
    /\ args.auth.token = Null
    /\ ret.value = jsonRpcOk(Num(1), [tools |-> listedTools])

(***************************************************************************)
(* callTool, the input schemas and truncateIfNeeded                        *)
(***************************************************************************)
CHARACTER_LIMIT == 50000

\* length of the warning appended to a truncated text
WARNING_LENGTH == 119

DigitValue ==
    ("0" :> 0) @@ ("1" :> 1) @@ ("2" :> 2) @@ ("3" :> 3) @@ ("4" :> 4)
        @@ ("5" :> 5) @@ ("6" :> 6) @@ ("7" :> 7) @@ ("8" :> 8) @@ ("9" :> 9)

isDigit(c) == c \in DOMAIN DigitValue

\* /^\d{4}-\d{2}-\d{2}$/
dateRegex(chars) ==
    /\ Len(chars) = 10
    /\ \A i \in {1, 2, 3, 4, 6, 7, 9, 10} : isDigit(chars[i])
    /\ chars[5] = "-" /\ chars[8] = "-"

numberAt(chars, from, to) ==
    IF from = to THEN DigitValue[chars[from]]
    ELSE IF to = from + 1 THEN 10 * DigitValue[chars[from]] + DigitValue[chars[to]]
    ELSE 1000 * DigitValue[chars[from]] + 100 * DigitValue[chars[from + 1]]
            + 10 * DigitValue[chars[from + 2]] + DigitValue[chars[to]]

\* !isNaN(new Date(date).getTime()) for a string that matched dateRegex
isValidDate(chars) ==
    /\ numberAt(chars, 6, 7) \in 1..12
    /\ numberAt(chars, 9, 10) \in 1..DaysInMonth(numberAt(chars, 1, 4), numberAt(chars, 6, 7))

\* z.string().regex(dateRegex).refine(...)
DateString(v) ==
    /\ isString(v) /\ "chars" \in DOMAIN v
    /\ dateRegex(v.chars)
    /\ isValidDate(v.chars)

\* z.nativeEnum(ResponseFormat).default(ResponseFormat.MARKDOWN)
ResponseFormatField(v) == v = Undefined \/ v \in {Str("markdown"), Str("json")}

\* z.number().int().positive().max(limit).optional()
PositiveIntUpTo(v, limit) ==
    v = Undefined \/ (isNumber(v) /\ v.d = 1 /\ v.n > 0 /\ v.n <= limit)

\* DateRangeBase.extend({page_limit, max_records}).strict()
DateRangeWithPaginationSchema(a) ==
    /\ ~a.extra
    /\ DateString(a.start_date)
    /\ a.end_date = Undefined \/ DateString(a.end_date)
    /\ ResponseFormatField(a.response_format)
    /\ PositiveIntUpTo(a.page_limit, 100)
    /\ PositiveIntUpTo(a.max_records, 50000)

\* z.object({response_format}).strict()
ResponseFormatOnlySchema(a) ==
    /\ ~a.extra
    /\ a.start_date = Undefined /\ a.end_date = Undefined
    /\ a.page_limit = Undefined /\ a.max_records = Undefined
    /\ ResponseFormatField(a.response_format)

\* {}
NoArguments ==
    [start_date |-> Undefined, end_date |-> Undefined, response_format |-> Undefined,
     page_limit |-> Undefined, max_records |-> Undefined, extra |-> FALSE]

TOOL_DEFS == {"oura_get_daily_sleep", "oura_get_workout", "oura_get_personal_info"}

ALIASES == ("oura_get_heart_rate" :> "oura_get_heartrate") @@ ("oura_get_workouts" :> "oura_get_workout")

resolveToolName(name) == IF name \in DOMAIN ALIASES THEN ALIASES[name] ELSE name

\* def.inputSchema.safeParse(a).success
safeParse(tool, a) ==
    IF tool = "oura_get_personal_info" THEN ResponseFormatOnlySchema(a)
    ELSE DateRangeWithPaginationSchema(a)

StringOfLength(n) == [k |-> "string", length |-> n]

truncateIfNeeded(text) ==
    IF text.length <= CHARACTER_LIMIT THEN text
    ELSE StringOfLength(CHARACTER_LIMIT + WARNING_LENGTH)

ToolError(prefix, detail) == [message |-> [prefix |-> prefix, detail |-> detail]]

Settled(outcome, invoked) == [outcome |-> outcome, invoked |-> invoked]

\* def.handler(parsed.data, toolCtx): one upstream request, then the formatted text
handler(tool, token, upstream) ==
    Settled(IF upstream.ok
            THEN Resolves([content |-> <<[type |-> "text",
                                           text |-> truncateIfNeeded(upstream.text)]>>])
            ELSE Rejects(ToolError("Oura API error", upstream.status)),
            << [dep |-> "handler", tool |-> tool],
               [dep |-> "request", tool |-> tool, token |-> token] >>)

\* mutant: the handler runs before the arguments are validated
callToolHandlerFirst(name, a, ctx, upstream) ==
    IF resolveToolName(name) \notin TOOL_DEFS
    THEN Settled(Rejects(ToolError("Unknown tool: ", name)), <<>>)
    ELSE IF ~safeParse(resolveToolName(name), IF a \in {Undefined, Null} THEN NoArguments ELSE a)
    THEN Settled(Rejects(ToolError("Invalid arguments: ", "parsed.error.message")),
                 handler(resolveToolName(name), ctx.token, upstream).invoked)
    ELSE handler(resolveToolName(name), ctx.token, upstream)

callTool(name, a, ctx, upstream) ==
    IF resolveToolName(name) \notin TOOL_DEFS
    THEN Settled(Rejects(ToolError("Unknown tool: ", name)), <<>>)
    ELSE IF ~safeParse(resolveToolName(name), IF a \in {Undefined, Null} THEN NoArguments ELSE a)
    THEN Settled(Rejects(ToolError("Invalid arguments: ", "parsed.error.message")), <<>>)
    ELSE handler(resolveToolName(name), ctx.token, upstream)

DateInputs ==
    { Undefined, Num(20260101),
      Text(<<"2", "0", "2", "6", "-", "0", "1", "-", "0", "1">>),
      Text(<<"n", "o", "t", "-", "a", "-", "d", "a", "t", "e">>),
      Text(<<"2", "0", "2", "6", "-", "1", "3", "-", "0", "1">>),
      Text(<<"2", "0", "2", "6", "-", "1", "-", "1">>) }

ToolArgumentInputs ==
    {Undefined, Null} \cup
    [ start_date : DateInputs,
      end_date : {Undefined, Text(<<"2", "0", "2", "6", "/", "0", "1", "/", "0", "2">>)},
      response_format : {Undefined, Str("json"), Str("xml")},
      page_limit : {Undefined, Num(0), Num(5), Num(101), [k |-> "number", n |-> 1, d |-> 2]},
      max_records : {Undefined, Num(50001)},
      extra : BOOLEAN ]

ToolNameInputs ==
    {"oura_get_daily_sleep", "oura_get_workouts", "oura_get_personal_info", "oura_get_heart_rate",
     "no_such_tool"}

TextLengths == {0, CHARACTER_LIMIT - 1, CHARACTER_LIMIT, CHARACTER_LIMIT + 1, 3 * CHARACTER_LIMIT}

Upstreams ==
    {[ok |-> TRUE, text |-> StringOfLength(n)] : n \in TextLengths}
        \cup {[ok |-> FALSE, status |-> 401], [ok |-> FALSE, status |-> 429]}

ToolsInit ==
    /\ args \in [name : ToolNameInputs, arguments : ToolArgumentInputs,
                 ctx : [token : {Str("token-a")}]]
    /\ ret = NotCalled
    /\ input = NotCalled
    /\ result = NotCalled
    /\ ModuleLoaded

CallTool ==
    /\ ret = NotCalled
    /\ \E upstream \in Upstreams :
          /\ ret' = [fn |-> "callTool",
                     value |-> callTool(args.name, args.arguments, args.ctx, upstream).outcome]
          /\ calls' = calls \o callTool(args.name, args.arguments, args.ctx, upstream).invoked
    /\ UNCHANGED <<args, input, result, GRANULARITY_NOTES, returned, cookies, clock>>

ToolsNext == CallTool

SpecTools == ToolsInit /\ [][ToolsNext]_vars

Resolvable(name) ==
    name \in {"oura_get_daily_sleep", "oura_get_workout", "oura_get_workouts",
              "oura_get_personal_info"}

PassesSchema(name, a) ==
    safeParse(IF name = "oura_get_workouts" THEN "oura_get_workout" ELSE name,
              IF a \in {Undefined, Null} THEN NoArguments ELSE a)

\* C17: callTool runs the handler, and with it any upstream request, only
\* after the tool name resolves and the arguments pass the tool's input
\* schema; for an unknown tool or invalid arguments it rejects with an
\* error (Invalid arguments for a schema failure) and nothing was run.
C17_ValidateBeforeHandler ==
    Called("callTool") =>
        /\ calls # <<>> => (Resolvable(args.name) /\ PassesSchema(args.name, args.arguments))
        /\ ~Resolvable(args.name) =>
              /\ ret.value.settled = "rejected"
              /\ calls = <<>>
        /\ (Resolvable(args.name) /\ ~PassesSchema(args.name, args.arguments)) =>
              /\ ret.value.settled = "rejected"
              /\ ret.value.reason.message.prefix = "Invalid arguments: "
              /\ calls = <<>>

C17_Witness ==
    /\ Called("callTool")
    /\ args.name = "oura_get_daily_sleep"
    /\ args.arguments # Undefined /\ args.arguments # Null
    /\ args.arguments.start_date = Text(<<"n", "o", "t", "-", "a", "-", "d", "a", "t", "e">>)
    /\ ret.value.settled = "rejected"
    /\ ret.value.reason.message.prefix = "Invalid arguments: "
    /\ calls = <<>>

\* C19: the text of every tool result that callTool returns is at most
\* 50,000 characters long.
C19_AtMostLimit ==
    (Called("callTool") /\ ret.value.settled = "fulfilled") =>
        \A i \in 1..Len(ret.value.value.content) :
            ret.value.value.content[i].text.length <= 50000

\* what does hold: a text is returned whole up to the limit and is cut to
\* the limit plus the length of the warning beyond it
C19_LimitPlusWarning ==
    (Called("callTool") /\ ret.value.settled = "fulfilled") =>
        \A i \in 1..Len(ret.value.value.content) :
            ret.value.value.content[i].text.length <= CHARACTER_LIMIT + WARNING_LENGTH

(***************************************************************************)
(* getTokenFromRequest.  A sealed value records the key it was sealed      *)
(* under, the payload {exp, data} and whether iv, tag and ciphertext are   *)
(* still the ones sealData produced.                                       *)
(***************************************************************************)
COOKIE_NAME == "oura_session"

LowerOf ==
    ("B" :> "b") @@ ("E" :> "e") @@ ("A" :> "a") @@ ("R" :> "r") @@ ("S" :> "s")
        @@ ("I" :> "i") @@ ("C" :> "c")

toLowerCase(chars) ==
    [i \in 1..Len(chars) |-> IF chars[i] \in DOMAIN LowerOf THEN LowerOf[chars[i]] ELSE chars[i]]

\* parseBearerAuth: the token after a case-insensitive "bearer " prefix
parseBearerAuth(value) ==
    IF Len(value) < 7 THEN Null
    ELSE IF toLowerCase(SubSeq(value, 1, 7)) # <<"b", "e", "a", "r", "e", "r", " ">> THEN Null
    ELSE IF Len(trim(SubSeq(value, 8, Len(value)))) > 0
         THEN Text(trim(SubSeq(value, 8, Len(value))))
    ELSE Null

\* getSessionSecret: a secret that is not blank
getSessionSecret(env) ==
    IF isString(env.SESSION_SECRET) /\ Len(trim(env.SESSION_SECRET.chars)) > 0
    THEN env.SESSION_SECRET ELSE Undefined

\* sealData(data, maxAgeSeconds) at time now: iv.tag.ciphertext
sealData(data, secret, exp) ==
    [k |-> "string", key |-> secret, payload |-> [exp |-> exp, data |-> data], intact |-> TRUE]

\* a string that is not three non-empty dot-separated pieces
NotSealed == [k |-> "string", pieces |-> 1]

\* unsealData: null without a secret, for a value that is not iv.tag.ct,
\* when decipher.final() rejects the tag, and for exp missing, 0 or past
unsealData(sessionValue, env, now) ==
    IF getSessionSecret(env) = Undefined THEN Null
    ELSE IF "payload" \notin DOMAIN sessionValue THEN Null
    ELSE IF sessionValue.key # getSessionSecret(env) \/ ~sessionValue.intact THEN Null
    ELSE IF ~isNumber(sessionValue.payload.exp) THEN Null
    ELSE IF sessionValue.payload.exp.n = 0 \/ now > sessionValue.payload.exp.n THEN Null
    ELSE orElse(sessionValue.payload.data, Null)

\* the access token of what unsealData returned
tokenOfData(data) ==
    IF data = Null THEN Null
    ELSE IF isString(data) THEN (IF data.chars = <<>> THEN Null ELSE data)
    ELSE IF isString(data.access_token) /\ Len(data.access_token.chars) > 0
         THEN data.access_token
    ELSE Null

unsealToken(sessionValue, env, now) == tokenOfData(unsealData(sessionValue, env, now))

\* parseCookie: the value of the first part named name; decodeURIComponent
\* throws on a malformed escape
RECURSIVE parseCookie(_, _, _)
parseCookie(parts, name, i) ==
    IF i > Len(parts) THEN Resolves(Null)
    ELSE IF ~parts[i].hasEquals \/ parts[i].key # name THEN parseCookie(parts, name, i + 1)
    ELSE IF parts[i].value = "" THEN Resolves(Null)
    ELSE IF parts[i].value = "malformed escape" THEN Rejects("URIError: URI malformed")
    ELSE Resolves(parts[i].decoded)

TokenFrom(token, source) == Resolves([token |-> token, source |-> source])

\* typeof req.query?.no_env === "string" && safeEq(req.query.no_env, "1")
noEnv(req) ==
    /\ req.query # Undefined
    /\ isString(req.query.no_env)
    /\ req.query.no_env = Str("1")

\* the steps of getTokenFromRequest after the cookie
fromEnv(req, env) ==
    IF isString(env.OURA_ACCESS_TOKEN) /\ Len(trim(env.OURA_ACCESS_TOKEN.chars)) > 0
           /\ ~noEnv(req)
    THEN TokenFrom(Text(trim(env.OURA_ACCESS_TOKEN.chars)), "env")
    ELSE TokenFrom(Null, "none")

fromCookieValue(parsed, req, env, now) ==
    IF parsed.settled = "rejected" THEN parsed
    ELSE IF parsed.value # Null /\ unsealToken(parsed.value, env, now) # Null
    THEN TokenFrom(unsealToken(parsed.value, env, now), "cookie")
    ELSE fromEnv(req, env)

fromCookie(req, env, now) ==
    IF isString(req.cookie) /\ Len(req.cookie.parts) > 0
    THEN fromCookieValue(parseCookie(req.cookie.parts, COOKIE_NAME, 1), req, env, now)
    ELSE fromEnv(req, env)

\* mutant: the session cookie is consulted before the Authorization header
getTokenCookieFirst(req, env, now) ==
    IF fromCookie(req, env, now).settled = "fulfilled"
           /\ fromCookie(req, env, now).value.source = "cookie"
    THEN fromCookie(req, env, now)
    ELSE IF req.authorization # Undefined /\ parseBearerAuth(req.authorization.chars) # Null
    THEN TokenFrom(parseBearerAuth(req.authorization.chars), "authorization")
    ELSE fromCookie(req, env, now)

getTokenFromRequest(req, env, now) ==
    IF req.authorization # Undefined /\ parseBearerAuth(req.authorization.chars) # Null
    THEN TokenFrom(parseBearerAuth(req.authorization.chars), "authorization")
    ELSE fromCookie(req, env, now)

Secrets == {Text(<<"s", "1">>), Text(<<"s", "2">>)}

Expiries == {Num(0), Num(10), Undefined}

SessionData ==
    { [k |-> "object", v |-> 1, access_token |-> Text(<<"c", "k">>)],
      [k |-> "object", v |-> 2, access_token |-> Text(<<"c", "k">>)],
      [k |-> "object", v |-> 2, access_token |-> Text(<<>>)] }

SealedValues ==
    {sealData(data, secret, exp) : data \in SessionData, secret \in Secrets, exp \in Expiries}
        \cup {[sealData([k |-> "object", v |-> 1, access_token |-> Text(<<"c", "k">>)], Text(<<"s", "1">>), Num(10))
                  EXCEPT !.intact = FALSE]}

CookiePart(key, value, decoded) ==
    [hasEquals |-> TRUE, key |-> key, value |-> value, decoded |-> decoded]

OtherPart == CookiePart("theme", "dark", NotSealed)

SessionParts ==
    {CookiePart(COOKIE_NAME, "encoded", v) : v \in SealedValues \cup {NotSealed}}
        \cup { CookiePart(COOKIE_NAME, "", NotSealed),
               CookiePart(COOKIE_NAME, "malformed escape", NotSealed) }

\* a Cookie header as its ;-separated parts ("" has none)
CookieHeader(parts) == [k |-> "string", parts |-> parts]

CookieHeaders ==
    {Undefined, CookieHeader(<<>>), CookieHeader(<<OtherPart>>),
     CookieHeader(<<[hasEquals |-> FALSE]>>)}
        \cup {CookieHeader(<<part>>) : part \in SessionParts}
        \cup {CookieHeader(<<OtherPart, part>>) : part \in SessionParts}

AuthorizationHeaders ==
    { Undefined, Text(<<"B", "e", "a", "r", "e", "r", " ", "h", "t">>), Text(<<"b", "e", "a", "r", "e", "r", " ", "h", "t">>), Text(<<"B", "E", "A", "R", "E", "R", " ", " ", "h", "t", " ">>), Text(<<"B", "e", "a", "r", "e", "r", " ", " ">>), Text(<<"B", "a", "s", "i", "c", " ", "h", "t">>) }

HttpRequests ==
    [ authorization : AuthorizationHeaders, cookie : CookieHeaders,
      query : {Undefined, [no_env |-> Undefined], [no_env |-> Str("1")], [no_env |-> Str("0")]} ]

Environments ==
    [ SESSION_SECRET : {Undefined, Text(<<"s", "1">>), Text(<<" ">>)},
      OURA_ACCESS_TOKEN : {Undefined, Text(<<" ">>), Text(<<" ", "e", "v", " ">>)} ]

Clock == {10, 11}

TokenInit ==
    /\ args \in [req : HttpRequests, env : Environments, now : Clock]
    /\ ret = NotCalled
    /\ input = NotCalled
    /\ result = NotCalled
    /\ ModuleLoaded

GetTokenFromRequest ==
    /\ ret = NotCalled
    /\ ret' = [fn |-> "getTokenFromRequest",
               value |-> getTokenFromRequest(args.req, args.env, args.now)]
    /\ UNCHANGED <<args, input, result>>
    /\ UNCHANGED module

TokenNext == GetTokenFromRequest

SpecToken == TokenInit /\ [][TokenNext]_vars

\* the token of a well-formed Authorization: Bearer header, Null otherwise
BearerOf(req) ==
    IF req.authorization \in {Text(<<"B", "e", "a", "r", "e", "r", " ", "h", "t">>), Text(<<"b", "e", "a", "r", "e", "r", " ", "h", "t">>)} THEN Text(<<"h", "t">>)
    ELSE IF req.authorization = Text(<<"B", "E", "A", "R", "E", "R", " ", " ", "h", "t", " ">>) THEN Text(<<"h", "t">>)
    ELSE Null

\* the session cookie parts of the request
SessionCookies(req) ==
    IF req.cookie = Undefined THEN {}
    ELSE {req.cookie.parts[i] : i \in {j \in 1..Len(req.cookie.parts) :
              req.cookie.parts[j].hasEquals /\ req.cookie.parts[j].key = COOKIE_NAME}}

\* a part carries a valid, unexpired sealed session
IsValidSession(part, env, now) ==
    /\ part.value = "encoded"
    /\ "payload" \in DOMAIN part.decoded
    /\ part.decoded.intact
    /\ env.SESSION_SECRET = part.decoded.key
    /\ part.decoded.payload.exp = Num(10) /\ now <= 10
    /\ part.decoded.payload.data.access_token # Text(<<>>)

ValidSessions(req, env, now) == {part \in SessionCookies(req) : IsValidSession(part, env, now)}

EnvToken(req, env) ==
    IF env.OURA_ACCESS_TOKEN = Text(<<" ", "e", "v", " ">>) /\ ~(req.query # Undefined /\ req.query.no_env = Str("1"))
    THEN Text(<<"e", "v">>) ELSE Null

Precedence(req, env, now) ==
    IF BearerOf(req) # Null THEN TokenFrom(BearerOf(req), "authorization")
    ELSE IF ValidSessions(req, env, now) # {}
    THEN TokenFrom((CHOOSE part \in ValidSessions(req, env, now) : TRUE)
                       .decoded.payload.data.access_token, "cookie")
    ELSE IF EnvToken(req, env) # Null THEN TokenFrom(EnvToken(req, env), "env")
    ELSE TokenFrom(Null, "none")

\* C18: getTokenFromRequest resolves the token by a fixed precedence: a
\* well-formed Authorization: Bearer header; otherwise a valid unexpired
\* sealed session cookie; otherwise OURA_ACCESS_TOKEN unless no_env=1;
\* otherwise token null with source none.
C18_Precedence ==
    Called("getTokenFromRequest") => ret.value = Precedence(args.req, args.env, args.now)

\* what does hold: the precedence for every request whose session cookie
\* value has no malformed escape, or whose Authorization header is well formed
C18_PrecedenceWhenDecodable ==
    (/\ Called("getTokenFromRequest")
     /\ \/ BearerOf(args.req) # Null
        \/ \A part \in SessionCookies(args.req) : part.value # "malformed escape")
        => ret.value = Precedence(args.req, args.env, args.now)

(***************************************************************************)
(* analyzeHealthData: the averages and the recommendation rules            *)
(***************************************************************************)
MaxAnalysisDays == 2    \* most records per category

\* Math.round: the nearest integer, halves upwards
mathRound(v) == (2 * v.n + v.d) \div (2 * v.d)

scoresOf(records) == [i \in 1..Len(records) |-> Num(records[i].score)]

stepsOf(records) == [i \in 1..Len(records) |-> Num(records[i].steps)]

\* data.stress.filter((d) => d.day_summary === summary).length
daysWith(records, summary) ==
    Cardinality({i \in 1..Len(records) : records[i].day_summary = summary})

\* the fields of insights the recommendation rules read
insightsOf(data) ==
    [ sleep |-> [avg_score |-> IF Len(data.sleep) > 0
                               THEN mathRound(average(scoresOf(data.sleep))) ELSE 0],
      activity |-> [avg_steps |-> IF Len(data.activity) > 0
                                  THEN mathRound(average(stepsOf(data.activity))) ELSE 0],
      readiness |-> [avg_score |-> IF Len(data.readiness) > 0
                                   THEN mathRound(average(scoresOf(data.readiness))) ELSE 0],
      stress |-> [stressed_days |-> IF Len(data.stress) > 0
                                    THEN daysWith(data.stress, "stressed") ELSE 0,
                  restored_days |-> IF Len(data.stress) > 0
                                    THEN daysWith(data.stress, "restored") ELSE 0] ]

pushIf(recommendations, fires, category, priority) ==
    IF fires THEN Append(recommendations, [category |-> category, priority |-> priority])
    ELSE recommendations

\* mutant: the movement rule is evaluated before the sleep rule
recommendationsMovementFirst(insights) ==
    pushIf(pushIf(pushIf(pushIf(<<>>,
        insights.activity.avg_steps > 0 /\ insights.activity.avg_steps < 7000,
            "Daily Movement", "MEDIUM"),
        insights.sleep.avg_score > 0 /\ insights.sleep.avg_score < 70,
            "Sleep Quality Optimization", "HIGH"),
        insights.readiness.avg_score > 0 /\ insights.readiness.avg_score < 75,
            "Recovery Optimization", "HIGH"),
        insights.stress.stressed_days > insights.stress.restored_days,
            "Stress Management", "HIGH")

recommendationsOf(insights) ==
    pushIf(pushIf(pushIf(pushIf(<<>>,
        insights.sleep.avg_score > 0 /\ insights.sleep.avg_score < 70,
            "Sleep Quality Optimization", "HIGH"),
        insights.activity.avg_steps > 0 /\ insights.activity.avg_steps < 7000,
            "Daily Movement", "MEDIUM"),
        insights.readiness.avg_score > 0 /\ insights.readiness.avg_score < 75,
            "Recovery Optimization", "HIGH"),
        insights.stress.stressed_days > insights.stress.restored_days,
            "Stress Management", "HIGH")

withRecommendations(insights) ==
    [ sleep |-> insights.sleep, activity |-> insights.activity,
      readiness |-> insights.readiness, stress |-> insights.stress,
      recommendations |-> recommendationsOf(insights) ]

analyzeHealthData(data) == withRecommendations(insightsOf(data))

UpTo(values) == UNION {[1..n -> values] : n \in 0..MaxAnalysisDays}

AnalysisInputs ==
    [ sleep : UpTo([score : {0, 69, 70}]),
      activity : UpTo([score : {80}, steps : {6999, 7001}]),
      readiness : UpTo([score : {74, 76}]),
      stress : UpTo([day_summary : {"stressed", "restored"}]) ]

AnalysisInit ==
    /\ args \in {[data |-> data] : data \in AnalysisInputs}
    /\ ret = NotCalled
    /\ input = NotCalled
    /\ result = NotCalled
    /\ ModuleLoaded

AnalyzeHealthData ==
    /\ ret = NotCalled
    /\ ret' = [fn |-> "analyzeHealthData", value |-> analyzeHealthData(args.data)]
    /\ UNCHANGED <<args, input, result>>
    /\ UNCHANGED module

AnalysisNext == AnalyzeHealthData

SpecAnalysis == AnalysisInit /\ [][AnalysisNext]_vars

RuleOrder ==
    <<"Sleep Quality Optimization", "Daily Movement", "Recovery Optimization",
      "Stress Management">>

CategoriesOf(v) == [i \in 1..Len(v.recommendations) |-> v.recommendations[i].category]

\* the rules as stated: an average below its threshold, more stressed than
\* restored days
FiresAsStated(v, category) ==
    CASE category = "Sleep Quality Optimization" -> v.sleep.avg_score < 70
      [] category = "Daily Movement" -> v.activity.avg_steps < 7000
      [] category = "Recovery Optimization" -> v.readiness.avg_score < 75
      [] category = "Stress Management" -> v.stress.stressed_days > v.stress.restored_days

\* the rules with the lower guard: an average of 0 fires nothing
Fires(v, category) ==
    CASE category = "Sleep Quality Optimization" -> v.sleep.avg_score > 0 /\ v.sleep.avg_score < 70
      [] category = "Daily Movement" -> v.activity.avg_steps > 0 /\ v.activity.avg_steps < 7000
      [] category = "Recovery Optimization" ->
             v.readiness.avg_score > 0 /\ v.readiness.avg_score < 75
      [] category = "Stress Management" -> v.stress.stressed_days > v.stress.restored_days

\* C20 as stated: one recommendation per rule that fires and none
\* otherwise, the rules being average sleep score < 70, average steps <
\* 7000, average readiness < 75, stressed days > restored days, in the
\* order sleep, movement, recovery, stress.
C20_Original ==
    Called("analyzeHealthData") =>
        CategoriesOf(ret.value) =
            SelectSeq(RuleOrder, LAMBDA category : FiresAsStated(ret.value, category))

\* C20 amended: the three average rules fire only for a rounded average
\* that is above 0 and below the threshold.
C20_OnePerFiringRule ==
    Called("analyzeHealthData") =>
        CategoriesOf(ret.value) =
            SelectSeq(RuleOrder, LAMBDA category : Fires(ret.value, category))

C20_Witness ==
    /\ Called("analyzeHealthData")
    /\ Len(args.data.sleep) = 2 /\ args.data.sleep[1].score = 69 /\ args.data.sleep[2].score = 69
    /\ Len(args.data.activity) = 1 /\ args.data.activity[1].steps = 6999
    /\ args.data.readiness = <<>>
    /\ CategoriesOf(ret.value) = <<"Sleep Quality Optimization", "Daily Movement">>

(***************************************************************************)
(* calculateTrend                                                          *)
(***************************************************************************)
MaxTrendLen == 8    \* longest score sequence

numbersOf(ints) == [i \in 1..Len(ints) |-> Num(ints[i])]

\* the classification of diff = secondHalf - firstHalf
trendOfDiff(diff) ==
    IF Lt(Num(2), diff) THEN "improving"
    ELSE IF Lt(diff, Num(-2)) THEN "declining"
    ELSE "stable"

trendOfHalves(values, mid) ==
    trendOfDiff(Sub(average(SubSeq(values, mid + 1, Len(values))),
                    average(SubSeq(values, 1, mid))))

\* mutant: a difference of exactly 2 or -2 already counts as a change
calculateTrendInclusive(values) ==
    IF Len(values) < 7 THEN "stable"
    ELSE IF Leq(Num(2), Sub(average(SubSeq(values, Len(values) \div 2 + 1, Len(values))),
                            average(SubSeq(values, 1, Len(values) \div 2))))
    THEN "improving"
    ELSE IF Leq(Sub(average(SubSeq(values, Len(values) \div 2 + 1, Len(values))),
                    average(SubSeq(values, 1, Len(values) \div 2))), Num(-2))
    THEN "declining"
    ELSE "stable"

calculateTrend(values) ==
    IF Len(values) < 7 THEN "stable"
    ELSE trendOfHalves(values, Len(values) \div 2)

TrendScores == {0, 2, 3}

TrendInit ==
    /\ args \in {[values |-> v] : v \in UNION {[1..n -> TrendScores] : n \in 0..MaxTrendLen}}
    /\ ret = NotCalled
    /\ input = NotCalled
    /\ result = NotCalled
    /\ ModuleLoaded

CallCalculateTrend ==
    /\ ret = NotCalled
    /\ ret' = [fn |-> "calculateTrend", value |-> calculateTrend(numbersOf(args.values))]
    /\ UNCHANGED <<args, input, result>>
    /\ UNCHANGED module

TrendNext == CallCalculateTrend

SpecTrend == TrendInit /\ [][TrendNext]_vars

RECURSIVE Total(_, _, _)
Total(ints, from, to) == IF from > to THEN 0 ELSE ints[from] + Total(ints, from + 1, to)

\* (mean of the second half - mean of the first half - bound), scaled by
\* the two half lengths, for a sequence split at mid
ScaledExcess(ints, mid, bound) ==
    Total(ints, mid + 1, Len(ints)) * mid - Total(ints, 1, mid) * (Len(ints) - mid)
        - bound * mid * (Len(ints) - mid)

MAX_AGE_SECONDS == 604800

TickMs == 30000

MaxTicks == 3     \* the clock runs from 0 to MaxTicks * TickMs

\* the id-th token string issued, and its length
TokenString(id, length) == [k |-> "string", s |-> id, length |-> length]

\* isProbablyBearerToken, for a token without surrounding blanks
isProbablyBearerToken(token) == ~(token.length < 16 \/ token.length > 2048)

\* the Set-Cookie header of a response: one value, the last setHeader wins
SetCookie(name, value, maxAge) == [name |-> name, value |-> value, maxAge |-> maxAge]

NoSetCookie == [name |-> "none"]

\* the browser's cookies after a response
afterResponse(jar, header) ==
    IF header = NoSetCookie THEN jar
    ELSE [jar EXCEPT ![header.name] = IF header.maxAge = 0 THEN Undefined ELSE header.value]

\* clearSessionCookie
clearSessionCookie == SetCookie("oura_session", "", 0)

\* sealSession(session) at time at
sealSession(session, env, at) ==
    sealData(session, getSessionSecret(env), Num(at + MAX_AGE_SECONDS * 1000))

\* setSessionCookie(res, token): the Set-Cookie value, or a thrown error
setSessionCookie(token, env, at) ==
    IF ~isProbablyBearerToken(token) THEN Rejects("Token format looks invalid")
    ELSE IF getSessionSecret(env) = Undefined THEN Rejects("SESSION_SECRET is required")
    ELSE Resolves(SetCookie("oura_session",
             sealSession([k |-> "object", v |-> 2, access_token |-> token,
                          refresh_token |-> Undefined, expires_at |-> Undefined,
                          source |-> "manual"], env, at),
             MAX_AGE_SECONDS))

stringOrUndefined(v) == IF isString(v) THEN v ELSE Undefined

\* setOAuthSessionCookie(res, session)
setOAuthSessionCookie(session, env, at) ==
    IF ~isString(session.access_token) THEN Rejects("TypeError")
    ELSE IF ~isProbablyBearerToken(session.access_token)
    THEN Rejects("Access token format looks invalid")
    ELSE IF getSessionSecret(env) = Undefined THEN Rejects("SESSION_SECRET is required")
    ELSE Resolves(SetCookie("oura_session",
             sealSession([k |-> "object", v |-> 2, access_token |-> session.access_token,
                          refresh_token |-> stringOrUndefined(session.refresh_token),
                          expires_at |-> IF isNumber(session.expires_in)
                                         THEN Num(at + session.expires_in.n * 1000)
                                         ELSE Undefined,
                          source |-> "oauth"], env, at),
             MAX_AGE_SECONDS))

\* the session of what unsealData returned
sessionOfData(data) ==
    IF data = Null \/ data.k # "object" THEN Null
    ELSE IF data.v = 2
    THEN (IF isString(data.access_token) /\ data.access_token.length > 0 THEN data ELSE Null)
    ELSE IF data.v = 1
    THEN (IF isString(data.access_token) /\ data.access_token.length > 0
          THEN [k |-> "object", v |-> 2, access_token |-> data.access_token,
                refresh_token |-> Undefined, expires_at |-> Undefined, source |-> "manual"]
          ELSE Null)
    ELSE Null

unsealSession(sessionValue, env, at) == sessionOfData(unsealData(sessionValue, env, at))

\* mutant: the token is refreshed only once it has expired
needsRefreshNoMargin(expiresAt, at) ==
    isNumber(expiresAt) /\ expiresAt.n > 0 /\ at > expiresAt.n

\* typeof expiresAt === "number" && expiresAt > 0 && Date.now() > expiresAt - 60_000
needsRefresh(expiresAt, at) ==
    isNumber(expiresAt) /\ expiresAt.n > 0 /\ at > expiresAt.n - 60000

Answer(outcome, setCookie, refreshed) ==
    [outcome |-> outcome, setCookie |-> setCookie, refreshed |-> refreshed]

\* the try block: refreshAccessToken, then setOAuthSessionCookie
tryRefresh(stored, env, at, refresh) ==
    IF refresh.settled = "rejected"
    THEN Answer(TokenFrom(Null, "none"), clearSessionCookie, TRUE)
    ELSE IF stored.settled = "rejected"
    THEN Answer(TokenFrom(Null, "none"), clearSessionCookie, TRUE)
    ELSE Answer(TokenFrom(refresh.value.access_token, "cookie"), stored.value, TRUE)

withSession(session, req, env, at, refresh) ==
    IF ~needsRefresh(session.expires_at, at)
    THEN Answer(TokenFrom(session.access_token, "cookie"), NoSetCookie, FALSE)
    ELSE IF ~isString(session.refresh_token) \/ session.refresh_token.length = 0
    THEN Answer(TokenFrom(session.access_token, "cookie"), NoSetCookie, FALSE)
    ELSE tryRefresh(IF refresh.settled = "fulfilled"
                    THEN setOAuthSessionCookie(refresh.value, env, at) ELSE refresh,
                    env, at, refresh)

withCookieValue(parsed, req, env, at, refresh) ==
    IF parsed.settled = "rejected" THEN Answer(parsed, NoSetCookie, FALSE)
    ELSE IF parsed.value # Null /\ unsealSession(parsed.value, env, at) # Null
    THEN withSession(unsealSession(parsed.value, env, at), req, env, at, refresh)
    ELSE Answer(fromEnv(req, env), NoSetCookie, FALSE)

getTokenForRequestWithRefresh(req, env, at, refresh) ==
    IF req.authorization # Undefined /\ parseBearerAuth(req.authorization.chars) # Null
    THEN Answer(TokenFrom(parseBearerAuth(req.authorization.chars), "authorization"),
                NoSetCookie, FALSE)
    ELSE IF isString(req.cookie) /\ Len(req.cookie.parts) > 0
    THEN withCookieValue(parseCookie(req.cookie.parts, COOKIE_NAME, 1), req, env, at, refresh)
    ELSE Answer(fromEnv(req, env), NoSetCookie, FALSE)

ServerEnv == [SESSION_SECRET |-> Text(<<"s", "1">>), OURA_ACCESS_TOKEN |-> Text(<<" ", "e", "v", " ">>)]

\* the Cookie header the browser sends
cookieHeaderOf(jar) ==
    IF jar.oura_session = Undefined THEN Undefined
    ELSE CookieHeader(<<CookiePart(COOKIE_NAME, "encoded", jar.oura_session)>>)

\* what the token endpoint may answer to an authorization code
IssuedSessions ==
    [ access_token : {TokenString(1, 32)},
      refresh_token : {TokenString(1, 32), Undefined},
      expires_in : {Num(30), Num(90), Undefined} ]

\* the number of the access token the browser holds (0: none issued)
issuedTo(jar) ==
    IF jar.oura_session = Undefined THEN 0 ELSE jar.oura_session.payload.data.access_token.s

\* what refreshAccessToken may do; the token endpoint never issues the
\* token it is asked to replace
RefreshOutcomes(jar) ==
    { Resolves([access_token |-> TokenString(issuedTo(jar) + 1, 32),
                refresh_token |-> TokenString(issuedTo(jar) + 1, 32), expires_in |-> Num(90)]),
      Resolves([access_token |-> TokenString(issuedTo(jar) + 1, 5),
                refresh_token |-> TokenString(issuedTo(jar) + 1, 32), expires_in |-> Num(90)]),
      Rejects("Request failed with status code 401"),
      Rejects("OAuth client not configured") }

RefreshInit ==
    /\ args = NotCalled
    /\ ret = NotCalled
    /\ input = NotCalled
    /\ result = NotCalled
    /\ ModuleLoaded

\* the browser comes back from the OAuth callback with a session cookie
SetOAuthSessionCookie ==
    /\ \E session \in IssuedSessions :
          cookies' = afterResponse(cookies, setOAuthSessionCookie(session, ServerEnv, clock).value)
    /\ UNCHANGED <<args, ret, input, result, GRANULARITY_NOTES, returned, calls, clock>>

\* the user pastes a personal access token
SetSessionCookie ==
    /\ cookies' = afterResponse(cookies,
                     setSessionCookie(TokenString(0, 32), ServerEnv, clock).value)
    /\ UNCHANGED <<args, ret, input, result, GRANULARITY_NOTES, returned, calls, clock>>

Tick ==
    /\ clock < MaxTicks * TickMs
    /\ clock' = clock + TickMs
    /\ UNCHANGED <<args, ret, input, result, GRANULARITY_NOTES, returned, calls, cookies>>

RequestOf(authorization, jar) ==
    [authorization |-> authorization, cookie |-> cookieHeaderOf(jar), query |-> Undefined]

GetTokenForRequestWithRefresh ==
    /\ \E authorization \in {Undefined, Text(<<"B", "e", "a", "r", "e", "r", " ", "h", "t">>)}, refresh \in RefreshOutcomes(cookies) :
          /\ args' = [req |-> RequestOf(authorization, cookies), at |-> clock,
                      refresh |-> refresh]
          /\ ret' = [fn |-> "getTokenForRequestWithRefresh",
                     value |-> getTokenForRequestWithRefresh(
                                   RequestOf(authorization, cookies), ServerEnv, clock,
                                   refresh).outcome,
                     refreshed |-> getTokenForRequestWithRefresh(
                                   RequestOf(authorization, cookies), ServerEnv, clock,
                                   refresh).refreshed,
                     jar |-> afterResponse(cookies,
                                getTokenForRequestWithRefresh(
                                   RequestOf(authorization, cookies), ServerEnv, clock,
                                   refresh).setCookie)]
          /\ cookies' = afterResponse(cookies,
                            getTokenForRequestWithRefresh(
                                RequestOf(authorization, cookies), ServerEnv, clock,
                                refresh).setCookie)
    /\ UNCHANGED <<input, result, GRANULARITY_NOTES, returned, calls, clock>>

RefreshNext ==
    \/ SetOAuthSessionCookie
    \/ SetSessionCookie
    \/ Tick
    \/ GetTokenForRequestWithRefresh

SpecRefresh == RefreshInit /\ [][RefreshNext]_vars

\* the session the request's cookie holds
SentSession(a) == a.req.cookie.parts[1].decoded.payload.data

\* the request's session cookie holds a refresh token and an expires_at
\* less than 60 seconds ahead of the request, or already past
DueForRefresh(a) ==
    /\ a.req.cookie # Undefined
    /\ SentSession(a).refresh_token # Undefined
    /\ SentSession(a).expires_at # Undefined
    /\ SentSession(a).expires_at.n - a.at < 60000

\* the refresh succeeded: the token endpoint answered and the answer was stored
RefreshSucceeded(a) ==
    a.refresh.settled = "fulfilled" /\ a.refresh.value.access_token.length >= 16

\* ret.jar is the browser's cookies after the response
RefreshedAsClaimed ==
    /\ ret.value.settled = "fulfilled"
    /\ ret.value.value.token # SentSession(args).access_token
    /\ IF RefreshSucceeded(args)
       THEN /\ ret.value.value = [token |-> args.refresh.value.access_token, source |-> "cookie"]
            /\ ret.jar.oura_session # Undefined
            /\ ret.jar.oura_session.payload.data.access_token
                   = args.refresh.value.access_token
            /\ ret.jar.oura_session # args.req.cookie.parts[1].decoded
       ELSE /\ ret.value.value = [token |-> Null, source |-> "none"]
            /\ ret.jar.oura_session = Undefined

\* C22 as stated: for a request whose session cookie holds a refresh token
\* and an expires_at less than 60 seconds ahead, the stored access token is
\* never returned; the new token is returned and the cookie re-set when the
\* refresh succeeds, the cookie is cleared and token null / source none
\* returned when it fails.
C22_Original ==
    (Called("getTokenForRequestWithRefresh") /\ DueForRefresh(args)) => RefreshedAsClaimed

\* C22 amended: the same, for a request that carries no well-formed
\* Authorization: Bearer header.
C22_AutomaticRefresh ==
    (/\ Called("getTokenForRequestWithRefresh")
     /\ DueForRefresh(args)
     /\ args.req.authorization = Undefined) => RefreshedAsClaimed

C22_Witness ==
    /\ Called("getTokenForRequestWithRefresh")
    /\ DueForRefresh(args)
    /\ args.req.authorization = Undefined
    /\ SentSession(args).expires_at.n - args.at = 30000
    /\ RefreshSucceeded(args)
    /\ ret.value.value.token = TokenString(2, 32)

(***************************************************************************)
(* detrend over the column of one metric of the daily rows                 *)
(***************************************************************************)
MaxDetrendDays == 9    \* longest calendar window the detrended rows lie in

\* the days of the window that have a row: every day, or all but one
RowDays(w) == {1..w} \cup {(1..w) \ {d} : d \in 2..(w - 1)}

\* the days whose row lacks the metric: at most two
MetricGaps(w) == {S \in SUBSET (1..w) : Cardinality(S) <= 2}

DetrendInit ==
    /\ \E cal \in LeapCalendar, w \in (DetrendWindow + 1)..MaxDetrendDays :
         \E keep \in RowDays(w), gaps \in MetricGaps(w), p \in {"zigzag", "up"} :
            LET valueOf(f, i) ==
                    IF f = "sleep_score" /\ i \notin gaps THEN Pattern(p, i) ELSE Undefined
            IN  args = [rows |-> RowsOn(cal, w, keep, valueOf), key |-> "sleep_score"]
    /\ ret = NotCalled
    /\ input = NotCalled
    /\ result = NotCalled
    /\ ModuleLoaded

\* detrend(rows.map((r) => r[k]))
CallDetrend ==
    /\ ret = NotCalled
    /\ ret' = [fn |-> "detrend",
               value |-> detrend(Column(args.rows, args.key), DetrendWindow)]
    /\ UNCHANGED <<args, input, result>>
    /\ UNCHANGED module

DetrendNext == CallDetrend

SpecDetrend == DetrendInit /\ [][DetrendNext]_vars

\* the number of calendar days from day a to the later day b
DaysFrom(a, b) == CHOOSE k \in 0..MaxDetrendDays : addDays(a, k) = b

RawValues == Column(args.rows, args.key)

\* the values present on the calendar days D - 6 .. D, D the day of row i
OnTrailingDays(i) ==
    SelectSeq([j \in 1..i |->
                  IF DaysFrom(args.rows[j].day, args.rows[i].day) < DetrendWindow
                  THEN RawValues[j] ELSE Undefined], isNumber)

CausalOverDays ==
    \A i \in 1..Len(args.rows) :
        /\ (ret.value[i] = Undefined) <=> ~isNumber(RawValues[i])
        /\ isNumber(RawValues[i]) =>
              ret.value[i] = Sub(RawValues[i], average(OnTrailingDays(i)))

\* C23: the detrended value on day D is absent exactly when the metric is
\* absent on D, and otherwise is the value on D minus the mean of the values
\* present on the 7 calendar days ending on D; no later day is read.
C23_CalendarWindow == Called("detrend") => CausalOverDays

\* every day from the first row to the last has a row
NoDaySkipped ==
    \A i \in 1..(Len(args.rows) - 1) : NextDay(args.rows[i].day) = args.rows[i + 1].day

\* C23 holds whenever no calendar day between the first and the last row is
\* without a row.
C23_WhenNoDaySkipped == (Called("detrend") /\ NoDaySkipped) => CausalOverDays

\* no earlier value is present in the trailing window of row i
NoEarlierValue(i) ==
    \A j \in Max(1, i - DetrendWindow + 1)..(i - 1) : ~isNumber(RawValues[j])

\* C24 as stated: a day whose trailing window holds no earlier present value
\* keeps its raw value.
C24_Original ==
    Called("detrend") =>
        \A i \in 1..Len(args.rows) :
            (isNumber(RawValues[i]) /\ NoEarlierValue(i)) => ret.value[i] = RawValues[i]

\* C24 amended: a day whose trailing window holds no earlier present value
\* is its own window mean, so its detrended value is 0.
C24_FirstValueIsZero ==
    Called("detrend") =>
        \A i \in 1..Len(args.rows) :
            (isNumber(RawValues[i]) /\ NoEarlierValue(i)) => ret.value[i] = Num(0)

C24_Witness ==
    /\ Called("detrend")
    /\ ~isNumber(RawValues[1])
    /\ \E i \in 2..Len(args.rows) :
          /\ isNumber(RawValues[i])
          /\ NoEarlierValue(i)
          /\ RawValues[i] # Num(0)
          /\ ret.value[i] = Num(0)

(***************************************************************************)
(* buildDashboards over detailed-sleep records of a long weekend           *)
(***************************************************************************)
MaxNights == 3    \* most detailed-sleep records handed to buildDashboards

\* Friday 1 March 2024 to Sunday 3 March 2024
NightDays == << <<2024, 3, 1>>, <<2024, 3, 2>>, <<2024, 3, 3>> >>

\* a night's sleep, a nap without awake_time, a record without sleep
NightRecords(day) ==
    { [ day |-> day, total_sleep_duration |-> Num(27000), deep_sleep_duration |-> Num(5400),
        rem_sleep_duration |-> Num(6750), light_sleep_duration |-> Num(14850),
        awake_time |-> Num(1800), efficiency |-> Num(90), average_heart_rate |-> Num(55),
        average_hrv |-> Num(45), temperature_delta |-> Q(-1, 10),
        respiratory_rate |-> Num(15), bedtime_start |-> Iso(23, 30, 120),
        bedtime_end |-> Iso(7, 15, 120) ],
      [ day |-> day, total_sleep_duration |-> Num(3600), deep_sleep_duration |-> Num(0),
        rem_sleep_duration |-> Num(900), light_sleep_duration |-> Num(2700),
        awake_time |-> Undefined, efficiency |-> Num(80), average_heart_rate |-> Null,
        average_hrv |-> Null, temperature_delta |-> Null, respiratory_rate |-> Null,
        bedtime_start |-> Iso(1, 10, -300), bedtime_end |-> Iso(2, 15, -300) ],
      [ day |-> day, total_sleep_duration |-> Num(0), deep_sleep_duration |-> Num(0),
        rem_sleep_duration |-> Num(0), light_sleep_duration |-> Num(0),
        awake_time |-> Num(600), efficiency |-> Num(0), average_heart_rate |-> Null,
        average_hrv |-> Null, temperature_delta |-> Null, respiratory_rate |-> Null,
        bedtime_start |-> Null, bedtime_end |-> Null ] }

\* the records of n nights, in the order of their days
NightsOf(n) ==
    UNION { { recs \in [1..n -> UNION {NightRecords(NightDays[d]) : d \in 1..3}] :
                \A i \in 1..n : recs[i].day = NightDays[on[i]] } :
            on \in {f \in [1..n -> 1..3] : \A i \in 1..(n - 1) : f[i] <= f[i + 1]} }

NightsInit ==
    /\ \E n \in 1..MaxNights : \E recs \in NightsOf(n) :
          input = [EmptyInput("spearman", 1) EXCEPT !.sleepDetailed = recs]
    /\ result = NotCalled
    /\ args = NotCalled
    /\ ret = NotCalled
    /\ ModuleLoaded

NightsNext == BuildDashboards

SpecNights == NightsInit /\ [][NightsNext]_vars

\* the detailed-sleep records of a day whose total_sleep_duration is above 0
PositiveNights(day) ==
    { i \in 1..Len(input.sleepDetailed) :
        /\ input.sleepDetailed[i].day = day
        /\ isNumber(input.sleepDetailed[i].total_sleep_duration)
        /\ input.sleepDetailed[i].total_sleep_duration.n > 0 }

ShareOf(part, total) == Mul(Div(part, total), Num(100))

StagesFrom(row, rec) ==
    /\ row.deep_pct = ShareOf(rec.deep_sleep_duration, rec.total_sleep_duration)
    /\ row.rem_pct = ShareOf(rec.rem_sleep_duration, rec.total_sleep_duration)
    /\ row.light_pct = ShareOf(rec.light_sleep_duration, rec.total_sleep_duration)
    /\ row.awake_pct = ShareOf(IF rec.awake_time = Undefined THEN Num(0) ELSE rec.awake_time,
                               rec.total_sleep_duration)

StagesAbsent(row) ==
    /\ row.deep_pct = Undefined
    /\ row.rem_pct = Undefined
    /\ row.light_pct = Undefined
    /\ row.awake_pct = Undefined

\* C25: the four stage percentages of a day are present only if a
\* detailed-sleep record of that day has total_sleep_duration > 0, and are
\* then that record's stage durations over its total, times 100 (a missing
\* awake_time counting as 0); otherwise all four are absent.
C25_StagePercentages ==
    Built =>
        \A r \in 1..Len(result.daily_rows) :
            IF PositiveNights(result.daily_rows[r].day) = {}
            THEN StagesAbsent(result.daily_rows[r])
            ELSE \E i \in PositiveNights(result.daily_rows[r].day) :
                    StagesFrom(result.daily_rows[r], input.sleepDetailed[i])

C25_Witness ==
    /\ Built
    /\ Len(input.sleepDetailed) = 3
    /\ input.sleepDetailed[1].day = input.sleepDetailed[2].day
    /\ input.sleepDetailed[1].awake_time = Undefined
    /\ input.sleepDetailed[2].total_sleep_duration = Num(0)
    /\ input.sleepDetailed[3].day # input.sleepDetailed[1].day
    /\ input.sleepDetailed[3].total_sleep_duration = Num(0)
    /\ result.daily_rows[1].light_pct = Num(75)
    /\ result.daily_rows[1].awake_pct = Num(0)
    /\ StagesAbsent(result.daily_rows[2])

\* Saturday and Sunday of the long weekend
WeekendDays == { <<2024, 3, 2>>, <<2024, 3, 3>> }

\* the midsleep values of the rows that have one, on weekend or on week days
MidsleepsOn(weekend) ==
    Column(SelectSeq(result.daily_rows, LAMBDA row :
                        /\ row.midsleep_clock_min # Undefined
                        /\ (row.day \in WeekendDays) = weekend),
           "midsleep_clock_min")

\* (bedtime_clock_min + sleep_duration_h * 30) mod 1440
MidsleepAsStated(row) ==
    LET mid == Add(row.bedtime_clock_min, Mul(row.sleep_duration_h, Num(30)))
    IN  Sub(mid, Num(1440 * Floor(Div(mid, Num(1440)))))

\* C26: social_jetlag_min is null iff no row has a midsleep on a weekend day
\* or none has one on a week day; otherwise it is the absolute difference of
\* the two medians, at least 0 and below 1440; a row's midsleep is
\* (bedtime_clock_min + sleep_duration_h * 30) mod 1440.
C26_SocialJetlag ==
    Built =>
        /\ (result.summary.social_jetlag_min = Null)
              <=> (Len(MidsleepsOn(TRUE)) = 0 \/ Len(MidsleepsOn(FALSE)) = 0)
        /\ result.summary.social_jetlag_min # Null =>
              /\ \/ result.summary.social_jetlag_min
                        = Sub(median(MidsleepsOn(TRUE)), median(MidsleepsOn(FALSE)))
                 \/ result.summary.social_jetlag_min
                        = Sub(median(MidsleepsOn(FALSE)), median(MidsleepsOn(TRUE)))
              /\ Leq(Num(0), result.summary.social_jetlag_min)
              /\ Lt(result.summary.social_jetlag_min, Num(1440))
        /\ \A r \in 1..Len(result.daily_rows) :
              result.daily_rows[r].midsleep_clock_min # Undefined =>
                  result.daily_rows[r].midsleep_clock_min
                      = MidsleepAsStated(result.daily_rows[r])

C26_Witness ==
    /\ Built
    /\ Len(MidsleepsOn(TRUE)) = 2
    /\ Len(MidsleepsOn(FALSE)) = 1
    /\ MidsleepsOn(TRUE) = <<Num(75), Num(400)>>
    /\ MidsleepsOn(FALSE) = <<Num(400)>>
    /\ result.summary.social_jetlag_min = Q(325, 2)

(***************************************************************************)
(* histogram applied to drawn lists                                        *)
(***************************************************************************)
MaxBinValues == 3    \* most values handed to histogram

BinValues == {Num(0), Num(10), Num(30), Num(45), Num(60), Q(121, 2)}

\* min and max left out, or 0 and 90
BinRanges == { <<Undefined, Undefined>>, <<Num(0), Num(90)>> }

HistogramInit ==
    /\ \E n \in 1..MaxBinValues, binSize \in {15, 30}, range \in BinRanges :
         \E values \in [1..n -> BinValues] :
            args = [values |-> values, binSize |-> binSize,
                    min |-> range[1], max |-> range[2]]
    /\ ret = NotCalled
    /\ input = NotCalled
    /\ result = NotCalled
    /\ ModuleLoaded

CallHistogram ==
    /\ ret = NotCalled
    /\ ret' = [fn |-> "histogram",
               value |-> histogram(args.values, args.binSize, args.min, args.max)]
    /\ UNCHANGED <<args, input, result>>
    /\ UNCHANGED module

HistogramNext == CallHistogram

SpecHistogram == HistogramInit /\ [][HistogramNext]_vars

RECURSIVE CountSum(_, _)
CountSum(bins, n) == IF n = 0 THEN 0 ELSE bins[n].count + CountSum(bins, n - 1)

ValuesOf(a) == {a.values[i] : i \in 1..Len(a.values)}

\* the least and the largest of the list, unless min and max are given
LowOf(a) ==
    IF a.min # Undefined THEN a.min
    ELSE CHOOSE v \in ValuesOf(a) : \A u \in ValuesOf(a) : Leq(v, u)

HighOf(a) ==
    IF a.max # Undefined THEN a.max
    ELSE CHOOSE v \in ValuesOf(a) : \A u \in ValuesOf(a) : Leq(u, v)

\* v lies in bin b: x0 <= v < x1, the upper edge of the last bin included
InBin(v, bins, b) ==
    /\ Leq(Num(bins[b].x0), v)
    /\ \/ Lt(v, Num(bins[b].x1))
       \/ b = Len(bins) /\ v = Num(bins[b].x1)

BinsAsStated(a, bins) ==
    /\ Len(bins) > 0
    /\ bins[1].x0 = Floor(Div(LowOf(a), Num(a.binSize))) * a.binSize
    /\ bins[Len(bins)].x1 = Ceil(Div(HighOf(a), Num(a.binSize))) * a.binSize
    /\ \A b \in 1..Len(bins) : bins[b].x1 = bins[b].x0 + a.binSize
    /\ \A b \in 1..(Len(bins) - 1) : bins[b + 1].x0 = bins[b].x1
    /\ \A i \in 1..Len(a.values) :
          Cardinality({b \in 1..Len(bins) : InBin(a.values[i], bins, b)}) = 1
    /\ \A b \in 1..Len(bins) :
          bins[b].count = Cardinality({i \in 1..Len(a.values) : InBin(a.values[i], bins, b)})
    /\ CountSum(bins, Len(bins)) = Len(a.values)

SpansABin(a) ==
    Floor(Div(LowOf(a), Num(a.binSize))) < Ceil(Div(HighOf(a), Num(a.binSize)))

\* C27 holds for every list whose range spans at least one bin.
C27_WhenSpanningABin ==
    (Called("histogram") /\ SpansABin(args)) => BinsAsStated(args, ret.value)

\* C27, bedtime histogram: when some row has a bedtime, 48 bins of 30 minutes
\* whose counts sum to the number of rows with a bedtime.
C27_BedtimeBins ==
    (Built /\ Len(Numbers(Column(result.daily_rows, "bedtime_clock_min"))) > 0) =>
        /\ Len(result.cards[4].charts[1].bins) = 48
        /\ CountSum(result.cards[4].charts[1].bins, 48)
              = Len(Numbers(Column(result.daily_rows, "bedtime_clock_min")))

(***************************************************************************)
(* buildDashboards over days on which every analysed metric has records    *)
(***************************************************************************)
MaxAgreeDays == 6    \* longest run of days with records of six categories

\* the records of a category on the days 1..n of a calendar, but on day gap
RecordsOn(cal, n, gap, recordOf(_)) ==
    SelectSeq([i \in 1..n |-> recordOf(i)], LAMBDA rec : gap = 0 \/ rec.day # cal[gap])

AgreeInit ==
    /\ \E cal \in LeapCalendar, n \in MinPoints..MaxAgreeDays, gap \in {0, 2, MinPoints},
          shape \in {"linear", "convex", "steps"}, method \in Methods, maxLagDays \in 0..1 :
         input =
           [EmptyInput(method, maxLagDays) EXCEPT
              !.activity = RecordsOn(cal, n, 0, LAMBDA i :
                  [ day |-> cal[i], score |-> RunScore(shape, i), steps |-> Num(1000),
                    total_calories |-> Num(2000), active_calories |-> Num(500) ]),
              !.readiness = RecordsOn(cal, n, gap, LAMBDA i :
                  [ day |-> cal[i], score |-> Pattern("zigzag", i) ]),
              !.sleep = RecordsOn(cal, n, 0, LAMBDA i :
                  [ day |-> cal[i], score |-> Pattern("square", i) ]),
              !.stress = RecordsOn(cal, n, IF gap = 0 THEN 0 ELSE 1, LAMBDA i :
                  [ day |-> cal[i], stress_high |-> Num(60 * (i % 4)),
                    recovery_high |-> Num(5400) ]),
              !.workouts = RecordsOn(cal, n, gap, LAMBDA i :
                  [ day |-> cal[i],
                    intensity |-> IF i % 3 = 0 THEN "hard"
                                  ELSE IF i % 3 = 1 THEN "easy" ELSE "moderate" ]),
              !.sleepDetailed = RecordsOn(cal, n, 0, LAMBDA i :
                  [ day |-> cal[i], total_sleep_duration |-> Num(3600 * (5 + ((i * i) % 4))),
                    deep_sleep_duration |-> Num(5400), rem_sleep_duration |-> Num(3600),
                    light_sleep_duration |-> Num(9000), awake_time |-> Undefined,
                    efficiency |-> Num(90), average_heart_rate |-> Num(55),
                    average_hrv |-> Num(45), temperature_delta |-> Null,
                    respiratory_rate |-> Null, bedtime_start |-> Iso(23, 30, 120),
                    bedtime_end |-> Iso(7, 15, 120) ])]
    /\ result = NotCalled
    /\ args = NotCalled
    /\ ret = NotCalled
    /\ ModuleLoaded

AgreeNext == BuildDashboards

SpecAgree == AgreeInit /\ [][AgreeNext]_vars

\* the position of a metric among the labels of the matrix
LabelIndex(m, key) == CHOOSE i \in 1..Len(m.labels) : m.labels[i] = key

\* the entries of an analysis computed at lag 0
LagZero(la) == SelectSeq(la.lags, LAMBDA l : l.lag = 0)

\* C28: the lag-0 entry of each of the four lag analyses (x, y) exists and
\* has the n and the r of counts[x][y] and matrix[x][y] of the raw
\* correlation matrix, computed with the same method.
C28_LagZeroAgrees ==
    Built =>
        /\ result.correlation.method = input.correlationMethod
        /\ Len(result.lag_analyses) = 4
        /\ \A a \in 1..4 :
              /\ Len(LagZero(result.lag_analyses[a])) = 1
              /\ LagZero(result.lag_analyses[a])[1].n
                    = result.correlation.counts
                         [LabelIndex(result.correlation, result.lag_analyses[a].xKey)]
                         [LabelIndex(result.correlation, result.lag_analyses[a].yKey)]
              /\ LagZero(result.lag_analyses[a])[1].r
                    = result.correlation.matrix
                         [LabelIndex(result.correlation, result.lag_analyses[a].xKey)]
                         [LabelIndex(result.correlation, result.lag_analyses[a].yKey)]

C28_Witness ==
    /\ Built
    /\ input.maxLagDays = 0
    /\ Len(result.daily_rows) = 6
    /\ \A a \in 1..4 :
          /\ LagZero(result.lag_analyses[a])[1].n = 5
          /\ LagZero(result.lag_analyses[a])[1].r # Null
    /\ LagZero(result.lag_analyses[1])[1].r # LagZero(result.lag_analyses[3])[1].r

(***************************************************************************)
(* OuraClient.makeRequestAllPages: one step per awaited page request       *)
(***************************************************************************)
DefaultMaxPages == 10

DefaultMaxItems == 10000

MaxPageLimit == 3     \* largest page_limit handed over
MaxRecordCap == 3     \* largest max_records handed over

PageData(items) == [k |-> "array", items |-> items]

\* Array.isArray(response?.data) ? response.data : []
itemsOf(response) == IF response.data.k = "array" THEN response.data.items ELSE <<>>

\* what one makeRequestPage may bring: a page of 0 or 2 records with or
\* without next_token, a body without a data array, or an error
PageResponses(page) ==
    { Resolves([data |-> data, next_token |-> token]) :
        data \in { PageData(<<>>),
                   PageData(<<[page |-> page, item |-> 1], [page |-> page, item |-> 2]>>),
                   Undefined },
        token \in {Str("next"), Null, Undefined} }
    \cup { Rejects("Oura API error") }

\* mutant: the loop goes on while page <= maxPages
morePagesInclusive(nextToken, page, maxPages) ==
    nextToken # Null /\ Truthy(nextToken) /\ page <= maxPages

\* nextToken && page < maxPages
morePages(nextToken, page, maxPages) ==
    nextToken # Null /\ Truthy(nextToken) /\ page < maxPages

\* the frame of a call: its options and its locals
Frame(maxPages, maxItems) ==
    [ maxPages |-> maxPages, maxItems |-> maxItems, nextToken |-> Null, page |-> 0,
      collected |-> <<>>, lastResponse |-> Null, requests |-> 0, pc |-> "request" ]

\* one pass through the body of the do-while loop after the page arrived
afterPage(f, response) ==
    IF Len(f.collected) + Len(itemsOf(response)) >= f.maxItems
    THEN [f EXCEPT !.lastResponse = response,
                   !.collected = SubSeq(f.collected \o itemsOf(response),
                                        1, f.maxItems),
                   !.nextToken = Null,
                   !.requests = @ + 1,
                   !.pc = "return"]
    ELSE [f EXCEPT !.lastResponse = response,
                   !.collected = f.collected \o itemsOf(response),
                   !.nextToken = Coalesce(response.next_token, Null),
                   !.page = @ + 1,
                   !.requests = @ + 1,
                   !.pc = IF morePages(Coalesce(response.next_token, Null), f.page + 1,
                                       f.maxPages)
                          THEN "request" ELSE "return"]

\* the returned object
allPages(f) ==
    [ data |-> f.collected,
      next_token |-> IF morePages(f.nextToken, f.page, f.maxPages) THEN f.nextToken
                     ELSE Null ]

PagesInit ==
    /\ \E maxPages \in {Undefined} \cup {Num(n) : n \in 1..MaxPageLimit},
          maxItems \in {Undefined} \cup {Num(n) : n \in 1..MaxRecordCap} :
          /\ args = [fn |-> "makeRequestAllPages",
                     opts |-> [maxPages |-> maxPages, maxItems |-> maxItems]]
          /\ input = Frame(IF maxPages = Undefined THEN DefaultMaxPages ELSE maxPages.n,
                           IF maxItems = Undefined THEN DefaultMaxItems ELSE maxItems.n)
    /\ ret = NotCalled
    /\ result = NotCalled
    /\ ModuleLoaded

\* await this.makeRequestPage(...) and the rest of the loop body
RequestPage ==
    /\ input.pc = "request"
    /\ \E response \in PageResponses(input.page + 1) :
          IF response.settled = "rejected"
          THEN /\ input' = [input EXCEPT !.requests = @ + 1, !.pc = "thrown"]
               /\ ret' = [fn |-> "makeRequestAllPages", outcome |-> response]
          ELSE /\ input' = afterPage(input, response.value)
               /\ ret' = ret
    /\ UNCHANGED <<args, result>>
    /\ UNCHANGED module

ReturnAllPages ==
    /\ input.pc = "return"
    /\ input' = [input EXCEPT !.pc = "returned"]
    /\ ret' = [fn |-> "makeRequestAllPages", outcome |-> Resolves(allPages(input))]
    /\ UNCHANGED <<args, result>>
    /\ UNCHANGED module

PagesNext == RequestPage \/ ReturnAllPages

SpecPages == PagesInit /\ [][PagesNext]_vars

\* every page request is answered or fails within the axios timeout, and a
\* finished loop returns
SpecPagesFair == SpecPages /\ WF_vars(RequestPage) /\ WF_vars(ReturnAllPages)

PagesSettled == ret # NotCalled

PagesAsStated ==
    /\ input.requests <= input.maxPages
    /\ PagesSettled =>
          /\ input.requests >= 1
          /\ ret.outcome.settled = "fulfilled" =>
                /\ Len(ret.outcome.value.data) <= input.maxItems
                /\ ret.outcome.value.next_token = Null

\* C29: makeRequestAllPages terminates after between 1 and maxPages page
\* requests with at most maxItems records, and the next_token of its result
\* is null whether the upstream had no further page, the page limit stopped
\* the loop or the record cap truncated.
C29_Pagination == []PagesAsStated /\ <>PagesSettled

C29_Witness ==
    /\ PagesSettled
    /\ ret.outcome.settled = "fulfilled"
    /\ args.opts.maxPages = Num(2)
    /\ args.opts.maxItems = Num(3)
    /\ input.requests = 2
    /\ input.lastResponse.next_token = Str("next")
    /\ Len(ret.outcome.value.data) = 2
    /\ ret.outcome.value.next_token = Null

(***************************************************************************)
(* The OAuth login: oauthStart, the wait at the provider, oauthCallback     *)
(***************************************************************************)
OAUTH_COOKIE == "oura_oauth"

OAUTH_MAX_AGE_SECONDS == 600

WaitMs == 300000    \* the clock advances five minutes at a time
MaxWaits == 3       \* at most MaxWaits times

\* JSON.stringify(payload): a string that JSON.parse turns back into payload
JsonText(payload) == [k |-> "string", json |-> payload, length |-> 60]

\* sealToken(token) at time at
sealToken(token, env, at) ==
    sealData([k |-> "object", v |-> 1, access_token |-> token],
             getSessionSecret(env), Num(at + MAX_AGE_SECONDS * 1000))

\* unsealToken(v): the string sealed in v, or null
unsealedText(data) ==
    IF data = Null THEN Null
    ELSE IF isString(data) THEN data
    ELSE IF isString(data.access_token) /\ data.access_token.length > 0
    THEN data.access_token
    ELSE Null

\* the try block of readOAuthStateCookie; JSON.parse throws on a string that
\* is not JSON
stateOfText(text, at) ==
    IF text = Null THEN Null
    ELSE IF "json" \notin DOMAIN text THEN Null
    ELSE IF ~isString(text.json.state) THEN Null
    ELSE IF ~isNumber(text.json.created_at) THEN Null
    ELSE IF at - text.json.created_at.n > OAUTH_MAX_AGE_SECONDS * 1000 THEN Null
    ELSE [state |-> text.json.state, created_at |-> text.json.created_at]

stateOfCookieValue(parsed, env, at) ==
    IF parsed.settled = "rejected" THEN parsed
    ELSE IF parsed.value = Null THEN Resolves(Null)
    ELSE Resolves(stateOfText(unsealedText(unsealData(parsed.value, env, at)), at))

readOAuthStateCookie(req, env, at) ==
    IF ~isString(req.cookie) \/ Len(req.cookie.parts) = 0 THEN Resolves(Null)
    ELSE stateOfCookieValue(parseCookie(req.cookie.parts, OAUTH_COOKIE, 1), env, at)

clearOAuthStateCookie == SetCookie(OAUTH_COOKIE, "", 0)

setOAuthStateCookie(payload, env, at) ==
    IF getSessionSecret(env) = Undefined THEN Rejects("SESSION_SECRET is required")
    ELSE Resolves(SetCookie(OAUTH_COOKIE, sealToken(JsonText(payload), env, at),
                            OAUTH_MAX_AGE_SECONDS))

getClientConfig(env) ==
    IF ~isString(env.OURA_OAUTH_CLIENT_ID) THEN Rejects("Missing OURA_OAUTH_CLIENT_ID")
    ELSE Resolves([clientId |-> env.OURA_OAUTH_CLIENT_ID])

\* what the handler did: how the request ended, whether the token endpoint
\* was contacted, the Set-Cookie header left on the response
Handled(outcome, contacted, setCookie) ==
    [outcome |-> outcome, contacted |-> contacted, setCookie |-> setCookie]

Status(code, text) == Resolves([status |-> code, text |-> text])

oauthStart(state, env, at) ==
    IF getClientConfig(env).settled = "rejected"
    THEN Handled(getClientConfig(env), FALSE, NoSetCookie)
    ELSE IF setOAuthStateCookie([state |-> state, created_at |-> Num(at)], env, at).settled
                = "rejected"
    THEN Handled(setOAuthStateCookie([state |-> state, created_at |-> Num(at)], env, at),
                 FALSE, NoSetCookie)
    ELSE Handled(Status(302, "https://cloud.ouraring.com/oauth/authorize"), FALSE,
                 setOAuthStateCookie([state |-> state, created_at |-> Num(at)], env, at).value)

\* typeof req.query.x === "string" ? req.query.x : ""
queryString(v) == IF isString(v) THEN v ELSE Str("")

\* axios.post to the token endpoint, then setOAuthSessionCookie and redirect
exchangeCode(stored, exchange) ==
    IF exchange.settled = "rejected" THEN Handled(exchange, TRUE, clearOAuthStateCookie)
    ELSE IF stored.settled = "rejected" THEN Handled(stored, TRUE, clearOAuthStateCookie)
    ELSE Handled(Status(302, "/?connected=1"), TRUE, stored.value)

\* mutant: the state of the cookie is not compared with the query
checkStateAnyState(stored, req, env, at, exchange) ==
    IF stored.settled = "rejected" THEN Handled(stored, FALSE, NoSetCookie)
    ELSE IF stored.value = Null
    THEN Handled(Status(400, "Invalid state"), FALSE, clearOAuthStateCookie)
    ELSE exchangeCode(IF exchange.settled = "fulfilled"
                      THEN setOAuthSessionCookie(exchange.value, env, at) ELSE exchange,
                      exchange)

\* from readOAuthStateCookie on
checkState(stored, req, env, at, exchange) ==
    IF stored.settled = "rejected" THEN Handled(stored, FALSE, NoSetCookie)
    ELSE IF stored.value = Null \/ stored.value.state # queryString(req.query.state)
    THEN Handled(Status(400, "Invalid state"), FALSE, clearOAuthStateCookie)
    ELSE exchangeCode(IF exchange.settled = "fulfilled"
                      THEN setOAuthSessionCookie(exchange.value, env, at) ELSE exchange,
                      exchange)

oauthCallback(req, env, at, exchange) ==
    IF getClientConfig(env).settled = "rejected"
    THEN Handled(getClientConfig(env), FALSE, NoSetCookie)
    ELSE IF queryString(req.query.code) = Str("")
    THEN Handled(Status(400, "Missing code"), FALSE, NoSetCookie)
    ELSE checkState(readOAuthStateCookie(req, env, at), req, env, at, exchange)

\* process.env of a deployment with and without an OAuth client
OAuthEnvs ==
    { [SESSION_SECRET |-> Text(<<"s", "1">>), OURA_ACCESS_TOKEN |-> Undefined,
       OURA_OAUTH_CLIENT_ID |-> id] : id \in {Str("client"), Undefined} }

OAuthStates == {Str("state-1"), Str("state-2")}

\* the Cookie header of a callback request: the browser's cookie, none, the
\* cookie altered on the way, a value with a malformed percent escape
CallbackCookies(jar) ==
    { Undefined, CookieHeader(<<CookiePart(OAUTH_COOKIE, "malformed escape", NotSealed)>>) }
    \cup (IF jar.oura_oauth = Undefined THEN {}
          ELSE { CookieHeader(<<CookiePart(OAUTH_COOKIE, "encoded", jar.oura_oauth)>>),
                 CookieHeader(<<CookiePart(OAUTH_COOKIE, "encoded",
                                           [jar.oura_oauth EXCEPT !.intact = FALSE])>>) })
    \cup (IF jar.oura_session = Undefined THEN {}
          ELSE { CookieHeader(<<CookiePart(OAUTH_COOKIE, "encoded", jar.oura_session)>>) })

\* what the token endpoint may answer to the code
ExchangeOutcomes ==
    { Resolves([access_token |-> TokenString(1, 32), refresh_token |-> TokenString(1, 32),
                expires_in |-> Num(90)]),
      Rejects("Request failed with status code 400") }

OAuthInit ==
    /\ \E env \in OAuthEnvs : input = [env |-> env]
    /\ args = NotCalled
    /\ ret = NotCalled
    /\ result = NotCalled
    /\ ModuleLoaded

OauthStart ==
    /\ \E state \in OAuthStates :
          /\ args' = [fn |-> "oauthStart", at |-> clock]
          /\ ret' = [fn |-> "oauthStart", outcome |-> oauthStart(state, input.env, clock).outcome,
                     contacted |-> FALSE,
                     jar |-> afterResponse(cookies, oauthStart(state, input.env, clock).setCookie)]
          /\ cookies' = afterResponse(cookies, oauthStart(state, input.env, clock).setCookie)
    /\ UNCHANGED <<input, result, GRANULARITY_NOTES, returned, calls, clock>>

Wait ==
    /\ clock < MaxWaits * WaitMs
    /\ clock' = clock + WaitMs
    /\ UNCHANGED <<args, ret, input, result, GRANULARITY_NOTES, returned, calls, cookies>>

CallbackRequest(code, state, cookie) ==
    [cookie |-> cookie, query |-> [code |-> code, state |-> state]]

OauthCallback ==
    /\ \E code \in {Undefined, Str("code")}, state \in OAuthStates \cup {Undefined},
          cookie \in CallbackCookies(cookies), exchange \in ExchangeOutcomes :
          /\ args' = [fn |-> "oauthCallback", req |-> CallbackRequest(code, state, cookie),
                      at |-> clock, exchange |-> exchange, jar |-> cookies]
          /\ ret' = [fn |-> "oauthCallback",
                     outcome |-> oauthCallback(CallbackRequest(code, state, cookie),
                                               input.env, clock, exchange).outcome,
                     contacted |-> oauthCallback(CallbackRequest(code, state, cookie),
                                                 input.env, clock, exchange).contacted,
                     jar |-> afterResponse(cookies,
                                oauthCallback(CallbackRequest(code, state, cookie),
                                              input.env, clock, exchange).setCookie)]
          /\ cookies' = afterResponse(cookies,
                            oauthCallback(CallbackRequest(code, state, cookie),
                                          input.env, clock, exchange).setCookie)
    /\ UNCHANGED <<input, result, GRANULARITY_NOTES, returned, calls, clock>>

OAuthNext == OauthStart \/ Wait \/ OauthCallback

SpecOAuth == OAuthInit /\ [][OAuthNext]_vars

\* the value of the oura_oauth cookie a callback request carries
SentStateCookie(a) == a.req.cookie.parts[1]

\* the request carries a state cookie sealed by this server, unaltered, at
\* most 10 minutes old, whose state is the state query parameter
GoodState(a) ==
    /\ a.req.cookie # Undefined
    /\ SentStateCookie(a).value = "encoded"
    /\ SentStateCookie(a).decoded.intact
    /\ "json" \in DOMAIN SentStateCookie(a).decoded.payload.data.access_token
    /\ a.at - SentStateCookie(a).decoded.payload.data.access_token.json.created_at.n
           <= 10 * 60 * 1000
    /\ SentStateCookie(a).decoded.payload.data.access_token.json.state = a.req.query.state

\* the browser's session cookie after the response is not the one before
SessionCookieSet(a, r) == r.jar.oura_session # a.jar.oura_session

StateCheckedAsStated ==
    /\ (ret.contacted \/ SessionCookieSet(args, ret)) =>
          (args.req.query.code # Undefined /\ GoodState(args))
    /\ ~GoodState(args) =>
          /\ ret.outcome.settled = "fulfilled"
          /\ ret.outcome.value.status = 400
          /\ ~ret.contacted
          /\ ~SessionCookieSet(args, ret)

Answerable(a) ==
    /\ isString(input.env.OURA_OAUTH_CLIENT_ID)
    /\ a.req.cookie = Undefined \/ SentStateCookie(a).value # "malformed escape"

\* C30 holds on a server with an OAuth client for every request whose
\* cookie value is free of malformed percent escapes.
C30_WhenAnswerable ==
    (Called("oauthCallback") /\ Answerable(args)) => StateCheckedAsStated

\* on no request is the token endpoint contacted, or a session cookie set,
\* without a good state and a code
C30_NeverExchangedUnchecked ==
    (Called("oauthCallback") /\ ~(args.req.query.code # Undefined /\ GoodState(args))) =>
        /\ ~ret.contacted
        /\ ~SessionCookieSet(args, ret)

====
